---- MODULE Spec2Model ----
(***************************************************************************)
(* Pairwise-comparison rating subsystem of junior-developer:               *)
(*   - the comparison store with the Bradley-Terry/MM estimator            *)
(*     (src/junior_dev/scoring.py, BTMMScoringEngine), and                 *)
(*   - the decisive judge protocol (src/junior_dev/judge.py,               *)
(*     PairwiseJudge),                                                     *)
(*   - the ELO store (src/elo_scoring_engine.py, ELOScoringEngine),        *)
(*   - the evaluation round (src/junior_dev/shinka/evaluate.py), and       *)
(*   - record_comparison called on two connections to one store, and       *)
(*   - the queries of the store (rankings, samples, history, export), and  *)
(*   - the orchestrator evaluate_coding_agent_prompt and its failure path. *)
(* Bradley-Terry ratings are modelled in fixed point: a strength theta is  *)
(* an integer number of 1/Scale units, a normalised score an integer       *)
(* number of 1/Scale units of the 0..1000 range. ELO ratings are modelled  *)
(* as binary floats of MantBits significant bits.                          *)
(***************************************************************************)
EXTENDS Integers, Sequences, FiniteSets, TLC

\* ------------------------------------------------------------------ bounds
MaxCandidates == 2
MaxComparisons == 2
\* the engine of the model is constructed with max_iterations = 6 (the
\* constructor's default is 100)
max_iterations == 6
\* lines of an oracle response, compare calls per judge, cost of one query
MaxLines == 2
MaxCalls == 2
MaxCost == 1
\* the round budget num_comparisons of the evaluation rounds, and the largest
\* one opponents are selected for
MaxBudget == 3
MaxQuotaBudget == 12
\* the prior ratings an ELO update is computed for: float steps above the
\* lowest one
MaxGridSteps == 12
\* the largest reading of the wall clock time.time()
MaxClock == 2
\* the comparisons stored in a store that is queried
MaxQueryRecords == 1

Candidates == 1..MaxCandidates

\* ------------------------------------------------------- program constants
Scale == 1000
initial_score == 1 * Scale
TolInv == 1000000
\* 1e-10, below the 1/Scale resolution
ThetaFloor == 0
\* the floor literal is 1 * 10^-10: its mantissa
ThetaFloorMantissa == 1
NormTotal == 1000

Winners == {"a", "b", "tie"}
\* winner arguments a caller may pass: the valid ones and a value outside the
\* domain (the judge's own presentation label)
WinnerArgs == Winners \cup {"first"}
\* the reasoning text a caller passes along with a winner
ReasoningFor(winner) ==
    IF winner = "a" THEN "a is better"
    ELSE IF winner = "b" THEN "b is better"
    ELSE IF winner = "tie" THEN "equal" ELSE ""

\* judge.py
MAX_TIE_RETRIES == 2
Payloads == {"diff_x", "diff_y"}
\* kinds of lines of an oracle response: an "explanation:<text>" line, a
\* "candidate:first" line, a "candidate:second" line, any other line that
\* does not start with "candidate:"
Lines == {"expl", "cand_first", "cand_second", "junk"}
NOTE == "[Note: Judge failed to parse; randomly selected winner]"

VARIABLES
    bt_scores,          \* table bt_scores: candidate_id -> row
    comparisons,        \* table comparisons, in rowid order
    ret,                \* the store operation that ran last
    llm,                \* PairwiseJudge.llm is set (FALSE: the "mock" judge)
    total_comparisons,  \* PairwiseJudge.total_comparisons
    total_cost,         \* PairwiseJudge.total_cost
    call,               \* the locals of the compare call in progress
    jret,               \* what the last compare call returned
    elo_scores,         \* ELOScoringEngine, table elo_scores: candidate_id -> row
    elo_comparisons,    \* ELOScoringEngine, table comparisons, in rowid order
    round,              \* the locals of the evaluation round in progress
    conns               \* the record_comparison calls of concurrent connections

store_vars == <<bt_scores, comparisons, ret>>
judge_vars == <<llm, total_comparisons, total_cost, call, jret>>
elo_vars == <<elo_scores, elo_comparisons>>
vars == <<bt_scores, comparisons, ret, llm, total_comparisons, total_cost, call, jret,
          elo_scores, elo_comparisons, round, conns>>

\* ------------------------------------------------------------ small helpers
RECURSIVE SumSeq(_)
SumSeq(s) == IF s = <<>> THEN 0 ELSE Head(s) + SumSeq(Tail(s))

RECURSIVE SumOver(_, _)
SumOver(f, S) ==
    IF S = {} THEN 0
    ELSE LET x == CHOOSE y \in S : TRUE IN f[x] + SumOver(f, S \ {x})

\* a function value with every entry computed (as a numpy array holds numbers)
Array(f) == f @@ <<>>

Abs(x) == IF x < 0 THEN -x ELSE x

Range(seq) == {seq[k] : k \in 1..Len(seq)}

Max2(x, y) == IF x < y THEN y ELSE x

Min2(x, y) == IF x < y THEN x ELSE y

\* the sequences of k different elements of S
DistinctSeqs(S, k) ==
    {s \in [1..k -> S] : \A i \in 1..k, j \in 1..k : i # j => s[i] # s[j]}

RECURSIVE MaxOver(_, _)
MaxOver(f, S) ==
    IF S = {} THEN 0
    ELSE LET x == CHOOSE y \in S : TRUE IN Max2(f[x], MaxOver(f, S \ {x}))

\* ------------------------------------------------------------ compute_bt_mm
\* twice the score the comparison row gives to each side (1.0, 0.5, 0.0)
WinnerScore2(winner) ==
    IF winner = "a" THEN 2 ELSE IF winner = "tie" THEN 1 ELSE 0

\* wins[i], doubled so that ties stay integral
Wins2(cands, comps) ==
    Array([i \in cands |->
        SumSeq([k \in 1..Len(comps) |->
            (IF comps[k].candidate_a = i THEN comps[k].score2 ELSE 0)
          + (IF comps[k].candidate_b = i THEN 2 - comps[k].score2 ELSE 0)])])

CompMatrix(cands, comps) ==
    Array([i \in cands |-> Array([j \in cands |->
        SumSeq([k \in 1..Len(comps) |->
            (IF comps[k].candidate_a = i /\ comps[k].candidate_b = j THEN 1 ELSE 0)
          + (IF comps[k].candidate_a = j /\ comps[k].candidate_b = i THEN 1 ELSE 0)])])])

\* a pass that leaves a candidate without wins at its strength
MMStep_keep_zero_win(cands, wins2, cm, theta_old) ==
    Array([i \in cands |->
        IF wins2[i] = 0 THEN theta_old[i]
        ELSE LET denom == SumOver(
                     [j \in cands |->
                         IF cm[i][j] > 0
                         THEN (cm[i][j] * Scale * Scale) \div (theta_old[i] + theta_old[j])
                         ELSE 0], cands)
             IN IF denom > 0
                THEN (wins2[i] * Scale * Scale) \div (2 * denom)
                ELSE ThetaFloor])

\* one pass of the minorization-maximization update from theta_old; a strength
\* below the 1/Scale resolution is held as 0, and a term n/(0 + 0) is unbounded
MMStep(cands, wins2, cm, theta_old) ==
    Array([i \in cands |->
        IF wins2[i] = 0 THEN ThetaFloor
        ELSE IF \E j \in cands : cm[i][j] > 0 /\ theta_old[i] + theta_old[j] = 0
        THEN ThetaFloor
        ELSE LET denom == SumOver(
                     [j \in cands |->
                         IF cm[i][j] > 0
                         THEN (cm[i][j] * Scale * Scale) \div (theta_old[i] + theta_old[j])
                         ELSE 0], cands)
             IN IF denom > 0
                THEN (wins2[i] * Scale * Scale) \div (2 * denom)
                ELSE ThetaFloor])

MaxAbsDiff(cands, t1, t2) == MaxOver([i \in cands |-> Abs(t1[i] - t2[i])], cands)

\* np.max(np.abs(theta - theta_old)) < tol
Converged(cands, theta, theta_old) ==
    MaxAbsDiff(cands, theta, theta_old) * (TolInv \div Scale) < 1

\* one iteration of the loop body: the new theta and whether the loop breaks
\* (CHOOSE over a one-element set: the inner value is computed once)
MMBody(cands, wins2, cm, st) ==
    CHOOSE r \in {[theta |-> theta_new, done |-> Converged(cands, theta_new, st.theta)] :
                     theta_new \in {MMStep(cands, wins2, cm, st.theta)}} : TRUE

\* the loop "for iteration in range(max_iter)": iters passes from st, stopping
\* at the first pass that converges (the range is split in halves)
RECURSIVE MMIterate(_, _, _, _, _)
MMIterate(cands, wins2, cm, st, iters) ==
    IF iters = 0 \/ st.done THEN st
    ELSE IF iters = 1 THEN MMBody(cands, wins2, cm, st)
    ELSE CHOOSE r \in {MMIterate(cands, wins2, cm, mid, iters - (iters \div 2)) :
                          mid \in {MMIterate(cands, wins2, cm, st, iters \div 2)}} : TRUE

\* theta / total * 1000, in 1/Scale units
Normalise(cands, theta) ==
    LET total == SumOver(theta, cands)
    IN IF total > 0
       THEN Array([i \in cands |->
               ((theta[i] * NormTotal) \div total) * Scale
             + (((theta[i] * NormTotal) % total) * Scale) \div total])
       ELSE theta

\* a loop that makes one pass more than max_iter
compute_bt_mm_over_cap(cands, comps, max_iter) ==
    IF cands = {} THEN <<>>
    ELSE CHOOSE r \in
             {Normalise(cands,
                  MMIterate(cands, wc[1], wc[2],
                            [theta |-> Array([i \in cands |-> Scale]), done |-> FALSE],
                            max_iter + 1).theta) :
                  wc \in {<<Wins2(cands, comps), CompMatrix(cands, comps)>>}} : TRUE

compute_bt_mm(cands, comps, max_iter) ==
    IF cands = {} THEN <<>>
    ELSE CHOOSE r \in
             {Normalise(cands,
                  MMIterate(cands, wc[1], wc[2],
                            [theta |-> Array([i \in cands |-> Scale]), done |-> FALSE],
                            max_iter).theta) :
                  wc \in {<<Wins2(cands, comps), CompMatrix(cands, comps)>>}} : TRUE

\* ------------------------------------------------------ BTMMScoringEngine
NewRow == [bt_score |-> initial_score, num_comparisons |-> 0,
           wins |-> 0, losses |-> 0, ties |-> 0]

HasRow(scores, id) == id \in DOMAIN scores

\* a row inserted without the initial score
get_score_table_zero_score(scores, id) ==
    IF HasRow(scores, id) THEN scores
    ELSE scores @@ (id :> [NewRow EXCEPT !.bt_score = 0])

\* get_score: the table after the call (the row is inserted when missing)
get_score_table(scores, id) ==
    IF HasRow(scores, id) THEN scores ELSE scores @@ (id :> NewRow)

\* get_score: the value returned
get_score_value(scores, id) ==
    IF HasRow(scores, id) THEN scores[id].bt_score ELSE initial_score

RowMatches(row, x, y) == row.candidate_a = x /\ row.candidate_b = y

\* a lookup that checks the pair in the order given only
_comparison_exists_one_order(comps, a, b) ==
    \E k \in 1..Len(comps) : RowMatches(comps[k], a, b)

_comparison_exists(comps, a, b) ==
    \E k \in 1..Len(comps) : RowMatches(comps[k], a, b) \/ RowMatches(comps[k], b, a)

comparison_exists(comps, a, b) == _comparison_exists(comps, a, b)

\* a lookup that selects the pair in the order given only
get_comparison_one_order(comps, a, b) ==
    LET hits == SelectSeq(comps, LAMBDA row : RowMatches(row, a, b))
    IN IF hits = <<>> THEN <<>> ELSE <<Head(hits)>>

\* fetchone() of "WHERE (candidate_a = a AND candidate_b = b) OR (candidate_a = b
\* AND candidate_b = a)": SQLite answers the OR term by term through the unique
\* index, so a row stored as (a, b) comes before one stored as (b, a); <<>>
\* stands for None
get_comparison(comps, a, b) ==
    LET hits == SelectSeq(comps, LAMBDA row : RowMatches(row, a, b))
                \o SelectSeq(comps, LAMBDA row : RowMatches(row, b, a))
    IN IF hits = <<>> THEN <<>> ELSE <<Head(hits)>>

Bit(p) == IF p THEN 1 ELSE 0

\* a counter update that takes every outcome other than a win for a loss
_update_candidate_tie_as_loss(scores, id, winner, perspective) ==
    IF id \notin DOMAIN scores THEN scores
    ELSE [scores EXCEPT ![id] =
             [@ EXCEPT !.num_comparisons = @ + 1,
                       !.wins = @ + (IF winner = perspective THEN 1 ELSE 0),
                       !.losses = @ + (IF winner # perspective THEN 1 ELSE 0),
                       !.ties = @ + (IF winner = "tie" THEN 1 ELSE 0)]]

\* UPDATE ... WHERE candidate_id = ? touches no row when the id is unknown
_update_candidate(scores, id, winner, perspective) ==
    IF ~HasRow(scores, id) THEN scores
    ELSE LET is_win == winner = perspective
             is_loss == winner # perspective /\ winner # "tie"
             is_tie == winner = "tie"
         IN [scores EXCEPT ![id] =
                [@ EXCEPT !.num_comparisons = @ + 1,
                          !.wins = @ + Bit(is_win),
                          !.losses = @ + Bit(is_loss),
                          !.ties = @ + Bit(is_tie)]]

\* the constraints of the comparisons table: CHECK(winner IN ('a', 'b', 'tie'))
\* and UNIQUE(candidate_a, candidate_b)
ConstraintViolated(comps, a, b, winner) ==
    \/ winner \notin Winners
    \/ \E k \in 1..Len(comps) : RowMatches(comps[k], a, b)

\* time.time() at the INSERT of _store_comparison, read from a clock that
\* advances between two records
Tick(comps) == Len(comps) + 1

\* an insert that stores nothing
_store_comparison_dropped(comps, a, b, winner, score_a_old, score_b_old, score_a_new, score_b_new, reasoning) == comps

_store_comparison(comps, a, b, winner, score_a_old, score_b_old, score_a_new, score_b_new, reasoning) ==
    Append(comps, [candidate_a |-> a, candidate_b |-> b, winner |-> winner,
                   score_a_before |-> score_a_old, score_b_before |-> score_b_old,
                   score_a_after |-> score_a_new, score_b_after |-> score_b_new,
                   judge_reasoning |-> reasoning,
                   timestamp |-> Tick(comps)])

\* an incremental fit: one pass from the scores the table holds rather than
\* a fit from equal strengths
recomputed_scores_warm_start(scores, comps) ==
    IF comps = <<>> THEN [c \in DOMAIN scores |-> initial_score]
    ELSE LET cands == DOMAIN scores
             rows == [k \in 1..Len(comps) |->
                         [candidate_a |-> comps[k].candidate_a,
                          candidate_b |-> comps[k].candidate_b,
                          score2 |-> WinnerScore2(comps[k].winner)]]
         IN Normalise(cands,
                MMIterate(cands, Wins2(cands, rows), CompMatrix(cands, rows),
                          [theta |-> Array([i \in cands |-> scores[i].bt_score]),
                           done |-> FALSE], 1).theta)

\* _recompute_all_scores: the dictionary it returns
recomputed_scores(scores, comps) ==
    IF comps = <<>> THEN [c \in DOMAIN scores |-> initial_score]
    ELSE compute_bt_mm(DOMAIN scores,
             [k \in 1..Len(comps) |->
                 [candidate_a |-> comps[k].candidate_a,
                  candidate_b |-> comps[k].candidate_b,
                  score2 |-> WinnerScore2(comps[k].winner)]],
             max_iterations)

\* a refit that rebuilds the table from the candidates of the comparisons
_recompute_all_scores_compared_only(scores, comps) ==
    IF comps = <<>> THEN scores
    ELSE CHOOSE r \in
             {Array([c \in {d \in DOMAIN scores : \E k \in 1..Len(comps) :
                                comps[k].candidate_a = d \/ comps[k].candidate_b = d} |->
                        [scores[c] EXCEPT !.bt_score = new_scores[c]]]) :
                  new_scores \in {recomputed_scores(scores, comps)}} : TRUE

\* _recompute_all_scores: the bt_scores table it leaves
_recompute_all_scores(scores, comps) ==
    IF comps = <<>> THEN scores
    ELSE CHOOSE r \in
             {Array([c \in DOMAIN scores |-> [scores[c] EXCEPT !.bt_score = new_scores[c]]]) :
                  new_scores \in {recomputed_scores(scores, comps)}} : TRUE

\* UPDATE comparisons SET score_a_after, score_b_after WHERE candidate_a, candidate_b
UpdateAfterScores(comps, a, b, score_a_new, score_b_new) ==
    [k \in 1..Len(comps) |->
        IF RowMatches(comps[k], a, b)
        THEN [comps[k] EXCEPT !.score_a_after = score_a_new, !.score_b_after = score_b_new]
        ELSE comps[k]]

\* the operation that ran last, the error it raised ("" when it returned) and
\* whether a record_comparison found the pair stored
NoRet == [op |-> "none", error |-> "", existed |-> FALSE]

\* a validation that lets every winner through
ValidWinner_any(winner) == TRUE

\* line 166: the winner is one the store recognises
ValidWinner(winner) == winner \in Winners

\* a duplicate that overwrites the stored winner (last write wins)
record_existing_overwrite(scores, comps, a, b, winner, reasoning) ==
    [bt_scores |-> scores,
     comparisons |-> [k \in 1..Len(comps) |->
                         IF RowMatches(comps[k], a, b) \/ RowMatches(comps[k], b, a)
                         THEN [comps[k] EXCEPT !.winner = winner] ELSE comps[k]],
     error |-> "", existed |-> TRUE,
     scores |-> <<scores[a].bt_score, scores[b].bt_score>>]

\* a duplicate that answers with the scores stored before the first record
record_existing_before_scores(scores, comps, a, b, winner, reasoning) ==
    LET row == get_comparison(comps, a, b)[1]
    IN [bt_scores |-> scores, comparisons |-> comps, error |-> "", existed |-> TRUE,
        scores |-> <<IF row.candidate_a = a THEN row.score_a_before ELSE row.score_b_before,
                     IF row.candidate_a = b THEN row.score_a_before ELSE row.score_b_before>>]

\* lines 169-170, the pair is already stored: both scores are read, nothing is
\* written, the winner and the reasoning passed are not looked at
record_existing(scores, comps, a, b, winner, reasoning) ==
    LET s1 == get_score_table(scores, a)
        s2 == get_score_table(s1, b)
    IN [bt_scores |-> s2, comparisons |-> comps, error |-> "", existed |-> TRUE,
        scores |-> <<get_score_value(scores, a), get_score_value(s1, b)>>]

\* lines 172-192, a pair not stored yet (new_scores holds a and b, whose rows
\* get_score has created, so new_scores.get never falls back)
record_new(scores, comps, a, b, winner, reasoning) ==
    LET s1 == get_score_table(scores, a)
        s2 == get_score_table(s1, b)
        score_a_old == get_score_value(scores, a)
        score_b_old == get_score_value(s1, b)
        s3 == _update_candidate(s2, a, winner, "a")
        s4 == _update_candidate(s3, b, winner, "b")
    IN IF ConstraintViolated(comps, a, b, winner)
       THEN [bt_scores |-> s4, comparisons |-> comps, error |-> "IntegrityError",
             existed |-> FALSE, scores |-> <<>>]
       ELSE LET c1 == _store_comparison(comps, a, b, winner, score_a_old, score_b_old,
                                        score_a_old, score_b_old, reasoning)
            IN CHOOSE r \in
                   {[bt_scores |-> s5,
                     comparisons |-> UpdateAfterScores(c1, a, b, s5[a].bt_score,
                                                       s5[b].bt_score),
                     error |-> "", existed |-> FALSE,
                     scores |-> <<s5[a].bt_score, s5[b].bt_score>>] :
                        s5 \in {_recompute_all_scores(s4, c1)}} : TRUE

\* a record that replaces the stored row of the pair by the new outcome
record_comparison_upsert(scores, comps, a, b, winner, reasoning) ==
    IF ~ValidWinner(winner)
    THEN [bt_scores |-> scores, comparisons |-> comps, error |-> "ValueError",
          existed |-> FALSE, scores |-> <<>>]
    ELSE IF _comparison_exists(comps, a, b)
    THEN [bt_scores |-> scores,
          comparisons |-> [k \in 1..Len(comps) |->
              IF RowMatches(comps[k], a, b) \/ RowMatches(comps[k], b, a)
              THEN [comps[k] EXCEPT !.candidate_a = a, !.candidate_b = b,
                                    !.winner = winner, !.judge_reasoning = reasoning]
              ELSE comps[k]],
          error |-> "", existed |-> TRUE,
          scores |-> <<scores[a].bt_score, scores[b].bt_score>>]
    ELSE record_new(scores, comps, a, b, winner, reasoning)

\* record_comparison as a function of the store: the tables it leaves, the
\* error it raises ("" when it returns) and the pair of scores it returns
record_comparison(scores, comps, a, b, winner, reasoning) ==
    IF ~ValidWinner(winner)
    THEN [bt_scores |-> scores, comparisons |-> comps, error |-> "ValueError",
          existed |-> FALSE, scores |-> <<>>]
    ELSE IF _comparison_exists(comps, a, b)
    THEN record_existing(scores, comps, a, b, winner, reasoning)
    ELSE record_new(scores, comps, a, b, winner, reasoning)

\* ------------------------------------------------------------ store actions
GetScore(id) ==
    /\ bt_scores' = get_score_table(bt_scores, id)
    /\ ret' = [NoRet EXCEPT !.op = "get_score"]
    /\ UNCHANGED <<comparisons, judge_vars, elo_vars, round, conns>>

RecordComparison(a, b, winner) ==
    /\ \/ ~ValidWinner(winner)
       \/ _comparison_exists(comparisons, a, b)
       \/ Len(comparisons) < MaxComparisons
    /\ \E r \in {record_comparison(bt_scores, comparisons, a, b, winner,
                                   ReasoningFor(winner))} :
          /\ bt_scores' = r.bt_scores
          /\ comparisons' = r.comparisons
          /\ ret' = [op |-> "record_comparison", error |-> r.error, existed |-> r.existed]
    /\ UNCHANGED <<judge_vars, elo_vars, round, conns>>

ComparisonExists(a, b) ==
    /\ ret' = [NoRet EXCEPT !.op = "comparison_exists"]
    /\ UNCHANGED <<bt_scores, comparisons, judge_vars, elo_vars, round, conns>>

GetComparison(a, b) ==
    /\ ret' = [NoRet EXCEPT !.op = "get_comparison"]
    /\ UNCHANGED <<bt_scores, comparisons, judge_vars, elo_vars, round, conns>>

\* top_n = None: the default of get_rankings (a negative LIMIT is no limit in
\* SQLite as well)
None == -1

\* the rows of ids in an order ORDER BY bt_score DESC can deliver: SQLite
\* leaves the order of rows of equal score open
RankedOrders(scores, ids) ==
    {s \in DistinctSeqs(ids, Cardinality(ids)) :
        \A k \in 1..(Len(s) - 1) : scores[s[k]].bt_score >= scores[s[k + 1]].bt_score}

\* the LIMIT clause is left out of the query whenever top_n is falsy
Limited(seq, top_n) ==
    IF top_n = None \/ top_n = 0 \/ top_n < 0 THEN seq
    ELSE SubSeq(seq, 1, Min2(top_n, Len(seq)))

\* rankings in ascending score order
get_rankings_ascending(scores, top_n, min_comparisons) ==
    {Limited(seq, top_n) :
        seq \in {s \in DistinctSeqs(DOMAIN scores, Cardinality(DOMAIN scores)) :
                    \A k \in 1..(Len(s) - 1) :
                        scores[s[k]].bt_score <= scores[s[k + 1]].bt_score}}

\* get_rankings: the candidate_id column of the lists the call can return (the
\* score and the statistics of an entry are the columns of the same row)
get_rankings(scores, top_n, min_comparisons) ==
    {Limited(seq, top_n) :
        seq \in RankedOrders(scores, {c \in DOMAIN scores :
                                         scores[c].num_comparisons >= min_comparisons})}

\* get_comparison_history: the lists the call can return, the rows that name
\* the candidate on either side in an order ORDER BY timestamp DESC can deliver
get_comparison_history(comps, id) ==
    LET involved == {k \in 1..Len(comps) :
                        comps[k].candidate_a = id \/ comps[k].candidate_b = id}
    IN {[i \in 1..Len(s) |-> comps[s[i]]] :
           s \in {t \in DistinctSeqs(involved, Cardinality(involved)) :
                     \A i \in 1..(Len(t) - 1) :
                         comps[t[i]].timestamp >= comps[t[i + 1]].timestamp}}

GetComparisonHistory(id) ==
    /\ ret' = [NoRet EXCEPT !.op = "get_comparison_history"]
    /\ UNCHANGED <<bt_scores, comparisons, judge_vars, elo_vars, round, conns>>

\* get_stats: the row of the candidate, None when there is none
get_stats(scores, id) ==
    IF HasRow(scores, id) THEN [candidate_id |-> id] @@ scores[id] ELSE None

\* export_data: the counts of the metadata and the lists the two queries can
\* deliver (rows by score and comparisons by timestamp, both descending)
export_data(scores, comps) ==
    [total_candidates |-> Cardinality(DOMAIN scores),
     total_comparisons |-> Len(comps),
     scores |-> RankedOrders(scores, DOMAIN scores),
     comparisons |-> {[i \in 1..Len(s) |-> comps[s[i]]] :
                         s \in {t \in DistinctSeqs(1..Len(comps), Len(comps)) :
                                   \A i \in 1..(Len(t) - 1) :
                                       comps[t[i]].timestamp >= comps[t[i + 1]].timestamp}}]

\* the arguments of the queries
TopNs == {None} \cup 0..MaxCandidates

MinComparisons == 0..MaxComparisons

SampleSizes == 0..(MaxCandidates + 1)

\* a get_stats that creates the missing row, as get_score does
GetStats_creating(id) ==
    /\ ret' = [NoRet EXCEPT !.op = "get_stats", !.existed = HasRow(bt_scores, id)]
    /\ bt_scores' = get_score_table(bt_scores, id)
    /\ UNCHANGED <<comparisons, judge_vars, elo_vars, round, conns>>

\* get_stats (existed: a row was returned)
GetStats(id) ==
    /\ ret' = [NoRet EXCEPT !.op = "get_stats", !.existed = HasRow(bt_scores, id)]
    /\ UNCHANGED <<bt_scores, comparisons, judge_vars, elo_vars, round, conns>>

GetRankings(top_n, min_comparisons) ==
    /\ ret' = [NoRet EXCEPT !.op = "get_rankings"]
    /\ UNCHANGED <<bt_scores, comparisons, judge_vars, elo_vars, round, conns>>

GetRandomCandidates(n, exclude) ==
    /\ ret' = [NoRet EXCEPT !.op = "get_random_candidates"]
    /\ UNCHANGED <<bt_scores, comparisons, judge_vars, elo_vars, round, conns>>

ExportData ==
    /\ ret' = [NoRet EXCEPT !.op = "export_data"]
    /\ UNCHANGED <<bt_scores, comparisons, judge_vars, elo_vars, round, conns>>

\* ------------------------------------------------------------ PairwiseJudge
Responses == UNION {[1..n -> Lines] : n \in 0..MaxLines}

\* what llm.query produces: no response, or a response with its cost
OracleOutcomes ==
    {[absent |-> TRUE, content |-> <<>>, cost |-> 0]}
    \cup {[absent |-> FALSE, content |-> r, cost |-> c] : r \in Responses, c \in 0..MaxCost}

Positions == {"first", "second"}

\* a query that hands an absent response on as an empty text
_query_llm_no_fallback(has_llm, outcome, mock_winner) ==
    IF has_llm
    THEN [content |-> outcome.content, cost |-> outcome.cost]
    ELSE [content |-> <<"mock_expl", IF mock_winner = "first" THEN "cand_first"
                                     ELSE "cand_second", "conf">>, cost |-> 0]

_mock_llm_response(winner) ==
    <<"mock_expl", IF winner = "first" THEN "cand_first" ELSE "cand_second", "conf">>

\* _query_llm: the response text and the cost it returns
_query_llm(has_llm, outcome, mock_winner) ==
    IF has_llm
    THEN IF outcome.absent
         THEN [content |-> _mock_llm_response(mock_winner), cost |-> 0]
         ELSE [content |-> outcome.content, cost |-> outcome.cost]
    ELSE [content |-> _mock_llm_response(mock_winner), cost |-> 0]

\* lines matching ^candidate:\s*(first|second)\s*$ and lines matching ^explanation:
CandidateLines == {"cand_first", "cand_second"}

ExplanationLines == {"expl", "mock_expl"}

\* re.search: index of the first line from position i on that is of one of the
\* kinds, Len + 1 if there is none
RECURSIVE FirstIndex(_, _, _)
FirstIndex(response, i, kinds) ==
    IF i > Len(response) THEN Len(response) + 1
    ELSE IF response[i] \in kinds THEN i
    ELSE FirstIndex(response, i + 1, kinds)

\* _parse_response: winner and reasoning (the confidence is only logged)
_parse_response(response) ==
    LET c == FirstIndex(response, 1, CandidateLines)
        e == FirstIndex(response, 1, ExplanationLines)
    IN [winner |-> IF c > Len(response) THEN "tie"
                   ELSE IF response[c] = "cand_first" THEN "first" ELSE "second",
        reasoning |-> IF e > Len(response) THEN response
                      ELSE SubSeq(response, e,
                                  FirstIndex(response, e + 1, CandidateLines) - 1)]

\* a loop without its break: every call makes MAX_TIE_RETRIES queries
LoopContinues_no_break(attempt, winner_presented) == attempt + 1 < MAX_TIE_RETRIES

\* "for attempt in range(MAX_TIE_RETRIES)" with its break: another pass follows
LoopContinues(attempt, winner_presented) ==
    winner_presented = "tie" /\ attempt + 1 < MAX_TIE_RETRIES

\* a fallback that keeps the failed parse
FallbackWinner_keep(winner_presented, pick) == winner_presented

\* a fallback that picks at random without saying so
FallbackReasoning_silent(winner_presented, reasoning) == reasoning

\* lines 100-102: the random pick and the note after a failed loop
FallbackWinner(winner_presented, pick) ==
    IF winner_presented = "tie" THEN pick ELSE winner_presented

FallbackReasoning(winner_presented, reasoning) ==
    IF winner_presented = "tie" THEN Append(reasoning, NOTE) ELSE reasoning

\* a relabelling that forgets the coin flip
UnSwap_ignoring_flip(swapped, winner_presented) ==
    IF winner_presented = "first" THEN "a"
    ELSE IF winner_presented = "second" THEN "b" ELSE "KeyError"

\* lines 105-108; a key outside the dictionary raises KeyError
UnSwap(swapped, winner_presented) ==
    IF winner_presented \notin Positions THEN "KeyError"
    ELSE IF swapped
    THEN (IF winner_presented = "first" THEN "b" ELSE "a")
    ELSE (IF winner_presented = "first" THEN "a" ELSE "b")

\* a presentation that leaves the arguments in place whatever the coin shows
Presentation_in_place(swapped) == <<"a", "b">>

\* line 79: which of the caller's arguments is shown first and which second
Presentation(swapped) == IF swapped THEN <<"b", "a">> ELSE <<"a", "b">>

Arg(candidate_a, candidate_b, label) == IF label = "a" THEN candidate_a ELSE candidate_b

\* the locals of a running compare; queried_cost is the sum of the costs the
\* queries of the call have returned so far, log the record of these queries
IdleCall == [pc |-> "idle", detailed |-> FALSE, swapped |-> FALSE,
             order |-> <<"a", "b">>, first |-> "", second |-> "", attempt |-> 0,
             winner_presented |-> "tie", reasoning |-> <<>>, cost |-> 0,
             cost_before |-> 0, queried_cost |-> 0, log |-> <<>>]

\* what compare returned (winner, reasoning; cost for compare_detailed) and the
\* record of the call: the presentation, the position finally chosen and, per
\* oracle query, whether no response came, whether the fallback text was
\* parsed and the winner parsed
NoJRet == [valid |-> FALSE, detailed |-> FALSE, winner |-> "", reasoning |-> <<>>,
           cost |-> 0, order |-> <<"a", "b">>, first |-> "", second |-> "",
           presented |-> "", log |-> <<>>]

\* compare / compare_detailed, lines 78-85: the coin flip and the presentation
CompareBegin(candidate_a, candidate_b, coin, detailed) ==
    /\ call.pc = "idle"
    /\ total_comparisons < MaxCalls
    /\ call' = [IdleCall EXCEPT !.pc = "loop", !.detailed = detailed, !.swapped = coin,
                                !.order = Presentation(coin),
                                !.first = Arg(candidate_a, candidate_b, Presentation(coin)[1]),
                                !.second = Arg(candidate_a, candidate_b, Presentation(coin)[2]),
                                !.cost_before = total_cost]
    /\ jret' = NoJRet
    /\ UNCHANGED <<llm, total_comparisons, total_cost, store_vars, elo_vars, round, conns>>

\* one pass of the loop, lines 87-98: query, parse, break or go on
CompareAttempt(outcome, mock_winner) ==
    /\ call.pc = "loop"
    /\ LET q == _query_llm(llm, outcome, mock_winner)
           p == _parse_response(q.content)
       IN call' = [call EXCEPT
               !.winner_presented = p.winner,
               !.reasoning = p.reasoning,
               !.cost = q.cost,
               !.queried_cost = @ + q.cost,
               !.attempt = @ + 1,
               !.log = Append(@, [absent |-> llm /\ outcome.absent,
                                  mock |-> q.content = _mock_llm_response(mock_winner),
                                  winner |-> p.winner]),
               !.pc = IF LoopContinues(call.attempt, p.winner) THEN "loop" ELSE "after_loop"]
    /\ UNCHANGED <<llm, total_comparisons, total_cost, jret, store_vars, elo_vars, round, conns>>

\* statistics that count the oracle attempts of the call
CompareFinish_per_attempt(pick) ==
    /\ call.pc = "after_loop"
    /\ total_comparisons' = total_comparisons + call.attempt
    /\ total_cost' = total_cost + call.cost
    /\ jret' = [valid |-> TRUE, detailed |-> call.detailed,
                winner |-> UnSwap(call.swapped, FallbackWinner(call.winner_presented, pick)),
                reasoning |-> FallbackReasoning(call.winner_presented, call.reasoning),
                cost |-> IF call.detailed THEN (total_cost + call.cost) - call.cost_before
                         ELSE 0,
                order |-> call.order, first |-> call.first, second |-> call.second,
                presented |-> FallbackWinner(call.winner_presented, pick),
                log |-> call.log]
    /\ call' = IdleCall
    /\ UNCHANGED <<llm, store_vars, elo_vars, round, conns>>

\* lines 100-113 (and 119-128 of compare_detailed): fallback, un-swap, statistics
CompareFinish(pick) ==
    /\ call.pc = "after_loop"
    /\ total_comparisons' = total_comparisons + 1
    /\ total_cost' = total_cost + call.cost
    /\ jret' = [valid |-> TRUE, detailed |-> call.detailed,
                winner |-> UnSwap(call.swapped, FallbackWinner(call.winner_presented, pick)),
                reasoning |-> FallbackReasoning(call.winner_presented, call.reasoning),
                cost |-> IF call.detailed THEN (total_cost + call.cost) - call.cost_before
                         ELSE 0,
                order |-> call.order, first |-> call.first, second |-> call.second,
                presented |-> FallbackWinner(call.winner_presented, pick),
                log |-> call.log]
    /\ call' = IdleCall
    /\ UNCHANGED <<llm, store_vars, elo_vars, round, conns>>

\* get_statistics: the dictionary it returns (average_cost as the quotient it
\* is computed from; the model name is fixed at construction)
get_statistics(comparisons_total, cost_total) ==
    [total_comparisons |-> comparisons_total,
     total_cost |-> cost_total,
     average_cost |-> [num |-> cost_total, den |-> Max2(comparisons_total, 1)]]

ResetStatistics ==
    /\ call.pc = "idle"
    /\ total_comparisons' = 0
    /\ total_cost' = 0
    /\ UNCHANGED <<llm, call, jret, store_vars, elo_vars, round, conns>>


\* -------------------------------------------------------- ELOScoringEngine
\* Python floats, kept with MantBits significant bits (an IEEE double has 53):
\* a number x is held as the integer x * Unit, and every arithmetic result is
\* rounded to the nearest number of MantBits significant bits, ties to even
MantBits == 12
Unit == 32768
PowUnit == 4096

k_factor == 32
initial_elo == 1500 * Unit

RECURSIVE BitLen(_)
BitLen(m) == IF m = 0 THEN 0 ELSE 1 + BitLen(m \div 2)

\* m >= 0 rounded to the nearest multiple of q, ties to the even multiple
RoundToMultiple(m, q) ==
    LET lo == m \div q
        rem == m % q
    IN IF 2 * rem < q THEN lo * q
       ELSE IF 2 * rem > q THEN (lo + 1) * q
       ELSE IF lo % 2 = 0 THEN lo * q ELSE (lo + 1) * q

\* the float nearest to v
RoundFloat(v) ==
    LET m == Abs(v)
        n == BitLen(m)
    IN IF n <= MantBits THEN v
       ELSE (IF v < 0 THEN -1 ELSE 1) * RoundToMultiple(m, 2 ^ (n - MantBits))

\* the distance between v and the next float of larger magnitude
Ulp(v) == IF BitLen(Abs(v)) <= MantBits THEN 1 ELSE 2 ^ (BitLen(Abs(v)) - MantBits)

\* x / y for an integer y > 0, to the nearest unit
RoundDiv(x, y) == (IF x < 0 THEN -1 ELSE 1) * (RoundToMultiple(Abs(x), y) \div y)

\* 10 ** (2 ** -i) for i = 1..12, in 1/PowUnit
Pow10Root == <<12953, 7284, 5462, 4730, 4402, 4246, 4170, 4133, 4114, 4105, 4101, 4098>>

\* 10 ** (f / PowUnit) for 0 <= f < PowUnit, in 1/PowUnit: the product of the
\* roots of ten at the binary digits of f from digit i on
RECURSIVE Pow10Frac(_, _)
Pow10Frac(f, i) ==
    IF i > Len(Pow10Root) THEN PowUnit
    ELSE LET rest == Pow10Frac(f, i + 1)
         IN IF (f \div (2 ^ (Len(Pow10Root) - i))) % 2 = 1
            THEN RoundDiv(rest * Pow10Root[i], PowUnit)
            ELSE rest

RECURSIVE Pow10Int(_, _)
Pow10Int(p, n) ==
    IF n = 0 THEN p
    ELSE IF n > 0 THEN Pow10Int(p * 10, n - 1)
    ELSE Pow10Int(RoundDiv(p, 10), n + 1)

\* 10 ** x
Pow10(x) ==
    LET x12 == RoundDiv(x * PowUnit, Unit)
    IN RoundFloat(Pow10Int(Pow10Frac(x12 % PowUnit, 1), x12 \div PowUnit)
                  * (Unit \div PowUnit))

\* lines 370-375: the score of the comparison from A's perspective
score_a_of(winner) ==
    IF winner = "a" THEN Unit ELSE IF winner = "tie" THEN Unit \div 2 ELSE 0

\* line 379: expected_a = 1.0 / (1.0 + 10 ** ((elo_b_before - elo_a_before) / 400.0))
expected_a_of(elo_a_before, elo_b_before) ==
    RoundFloat(RoundDiv(Unit * Unit,
        RoundFloat(Unit + Pow10(RoundFloat(RoundDiv(
            RoundFloat(elo_b_before - elo_a_before), 400))))))

\* an expectation of B that repeats A's
expected_b_of_same_side(elo_a_before, elo_b_before, expected_a) == expected_a

\* line 380: expected_b = 1.0 - expected_a
expected_b_of(elo_a_before, elo_b_before, expected_a) == RoundFloat(Unit - expected_a)

\* lines 370-385: the two ratings after the comparison
elo_update(elo_a_before, elo_b_before, winner) ==
    LET score_a == score_a_of(winner)
        expected_a == expected_a_of(elo_a_before, elo_b_before)
        expected_b == expected_b_of(elo_a_before, elo_b_before, expected_a)
    IN [elo_a_after |-> RoundFloat(elo_a_before
                            + RoundFloat(k_factor * RoundFloat(score_a - expected_a))),
        elo_b_after |-> RoundFloat(elo_b_before
                            + RoundFloat(k_factor * RoundFloat(
                                  RoundFloat(Unit - score_a) - expected_b)))]

NewEloRow == [elo_score |-> initial_elo, num_comparisons |-> 0,
              wins |-> 0, losses |-> 0, ties |-> 0]

\* get_elo: the table after the call (the row is inserted when missing)
get_elo_table(scores, id) ==
    IF HasRow(scores, id) THEN scores ELSE scores @@ (id :> NewEloRow)

\* get_elo: the value returned
get_elo_value(scores, id) ==
    IF HasRow(scores, id) THEN scores[id].elo_score ELSE initial_elo

elo_comparison_exists(comps, a, b) ==
    \E k \in 1..Len(comps) : RowMatches(comps[k], a, b) \/ RowMatches(comps[k], b, a)

elo_get_comparison(comps, a, b) ==
    LET hits == SelectSeq(comps, LAMBDA row : RowMatches(row, a, b))
                \o SelectSeq(comps, LAMBDA row : RowMatches(row, b, a))
    IN IF hits = <<>> THEN <<>> ELSE <<Head(hits)>>

\* an UPDATE without its WHERE clause: every row takes the rating
elo_update_stats_every_row(scores, id, elo_after, winner, perspective) ==
    [c \in DOMAIN scores |->
        IF c = id
        THEN [scores[c] EXCEPT !.elo_score = elo_after,
                               !.num_comparisons = @ + 1,
                               !.wins = @ + Bit(winner = perspective),
                               !.losses = @ + Bit(winner # perspective /\ winner # "tie"),
                               !.ties = @ + Bit(winner = "tie")]
        ELSE [scores[c] EXCEPT !.elo_score = elo_after]]

\* lines 392-428: UPDATE elo_scores SET elo_score, counters WHERE candidate_id
elo_update_stats(scores, id, elo_after, winner, perspective) ==
    IF ~HasRow(scores, id) THEN scores
    ELSE [scores EXCEPT ![id] =
             [@ EXCEPT !.elo_score = elo_after,
                       !.num_comparisons = @ + 1,
                       !.wins = @ + Bit(winner = perspective),
                       !.losses = @ + Bit(winner # perspective /\ winner # "tie"),
                       !.ties = @ + Bit(winner = "tie")]]

\* lines 432-443: INSERT INTO comparisons
elo_insert_comparison(comps, a, b, winner, elo_a_before, elo_b_before, elo_a_after, elo_b_after, reasoning) ==
    Append(comps, [candidate_a |-> a, candidate_b |-> b, winner |-> winner,
                   elo_a_before |-> elo_a_before, elo_b_before |-> elo_b_before,
                   elo_a_after |-> elo_a_after, elo_b_after |-> elo_b_after,
                   judge_reasoning |-> reasoning])

\* ELOScoringEngine.record_comparison as a function of the store: the tables
\* it leaves, the error it raises ("" when it returns) and the pair it returns
elo_record_comparison(scores, comps, a, b, winner, reasoning) ==
    IF winner \notin Winners
    THEN [elo_scores |-> scores, elo_comparisons |-> comps, error |-> "ValueError",
          existed |-> FALSE, scores |-> <<>>]
    ELSE LET s1 == get_elo_table(scores, a)
             s2 == get_elo_table(s1, b)
             elo_a_before == get_elo_value(scores, a)
             elo_b_before == get_elo_value(s1, b)
         IN IF elo_comparison_exists(comps, a, b)
            THEN [elo_scores |-> s2, elo_comparisons |-> comps, error |-> "",
                  existed |-> TRUE, scores |-> <<elo_a_before, elo_b_before>>]
            ELSE CHOOSE r \in
                {[elo_scores |->
                      elo_update_stats(
                          elo_update_stats(s2, a, u.elo_a_after, winner, "a"),
                          b, u.elo_b_after, winner, "b"),
                  elo_comparisons |->
                      elo_insert_comparison(comps, a, b, winner, elo_a_before,
                          elo_b_before, u.elo_a_after, u.elo_b_after, reasoning),
                  error |-> "", existed |-> FALSE,
                  scores |-> <<u.elo_a_after, u.elo_b_after>>] :
                     u \in {elo_update(elo_a_before, elo_b_before, winner)}} : TRUE

\* ---------------------------------------------------------- ELO actions
GetElo(id) ==
    /\ elo_scores' = get_elo_table(elo_scores, id)
    /\ ret' = [NoRet EXCEPT !.op = "get_elo"]
    /\ UNCHANGED <<elo_comparisons, bt_scores, comparisons, judge_vars, round, conns>>

EloRecordComparison(a, b, winner) ==
    /\ \/ winner \notin Winners
       \/ elo_comparison_exists(elo_comparisons, a, b)
       \/ Len(elo_comparisons) < MaxComparisons
    /\ \E r \in {elo_record_comparison(elo_scores, elo_comparisons, a, b, winner,
                                       ReasoningFor(winner))} :
          /\ elo_scores' = r.elo_scores
          /\ elo_comparisons' = r.elo_comparisons
          /\ ret' = [op |-> "elo_record_comparison", error |-> r.error,
                     existed |-> r.existed]
    /\ UNCHANGED <<bt_scores, comparisons, judge_vars, round, conns>>

\* ------------------------------------------- evaluate.py: evaluation round
\* the candidate under evaluation and its possible opponents
RoundCandidates == 1..(MaxCandidates + 1)

\* candidate ids are handed out in order: a round evaluates a candidate the
\* store knows, or the next new one
RoundCandidateIds(scores) ==
    RoundCandidates \cap (DOMAIN scores \cup {Cardinality(DOMAIN scores) + 1})

\* the budget of the evaluation rounds
Budgets == {MaxBudget}

\* the budgets opponents are selected for
QuotaBudgets == 0..MaxQuotaBudget

\* lines 290-292 (RANDOM_FRACTION = 0.3, QUARTILE_FRACTION = 0.4)
n_random(num_comparisons) == Max2(1, (3 * num_comparisons) \div 10)

n_quartile(num_comparisons) == Min2(4, Max2(1, (4 * num_comparisons) \div 10))

\* a refinement quota that forgets the calibration picks
n_neighbors_without_quartile(num_comparisons) ==
    Max2(1, num_comparisons - n_random(num_comparisons))

n_neighbors(num_comparisons) ==
    Max2(1, num_comparisons - n_random(num_comparisons) - n_quartile(num_comparisons))

\* a sample drawn from all rows, the excluded ids among them
get_random_candidates_unfiltered(scores, n, exclude) ==
    DistinctSeqs(DOMAIN scores, Min2(n, Cardinality(DOMAIN scores)))

\* ORDER BY RANDOM() LIMIT n over the rows not excluded: the possible results
get_random_candidates(scores, n, exclude) ==
    DistinctSeqs(DOMAIN scores \ exclude, Min2(n, Cardinality(DOMAIN scores \ exclude)))

\* one representative near each quartile boundary of the ranking, the excluded
\* ids left out: at most n_quartiles different ids (the possible results)
get_quartile_candidates(scores, n_quartiles, exclude) ==
    UNION {DistinctSeqs(DOMAIN scores \ exclude, k) :
               k \in 0..Min2(n_quartiles, Cardinality(DOMAIN scores \ exclude))}

\* the n candidates other than candidate_id whose score is closest to its
\* score, closest first (the possible results)
get_neighbor_candidates(scores, candidate_id, n) ==
    LET pool == DOMAIN scores \ {candidate_id}
        own == get_score_value(scores, candidate_id)
        dist == [x \in pool |-> Abs(scores[x].bt_score - own)]
    IN {s \in DistinctSeqs(pool, Min2(n, Cardinality(pool))) :
           /\ \A i \in 1..Len(s), j \in 1..Len(s) : i < j => dist[s[i]] <= dist[s[j]]
           /\ \A x \in pool \ Range(s), i \in 1..Len(s) : dist[s[i]] <= dist[x]}

\* list(dict.fromkeys(ids)): the first occurrence of every id, in order
RECURSIVE Dedupe(_)
Dedupe(ids) ==
    IF ids = <<>> THEN <<>>
    ELSE LET front == Dedupe(SubSeq(ids, 1, Len(ids) - 1))
         IN IF ids[Len(ids)] \in Range(front) THEN front
            ELSE Append(front, ids[Len(ids)])

\* a phase 1 that keeps the opponents already compared
_select_opponents_unfiltered(comps, candidate_id, random_ids, quartile_ids) ==
    Dedupe(random_ids \o quartile_ids)

\* _select_opponents, lines 297-299: phase1
_select_opponents(comps, candidate_id, random_ids, quartile_ids) ==
    SelectSeq(Dedupe(random_ids \o quartile_ids),
              LAMBDA opp : ~comparison_exists(comps, candidate_id, opp))

\* a phase 2 that keeps the opponents already compared
neighbor_ids_unfiltered(comps, candidate_id, neighbors) == neighbors

\* line 506: the neighbours not yet compared with the candidate
neighbor_ids(comps, candidate_id, neighbors) ==
    SelectSeq(neighbors, LAMBDA opp : ~comparison_exists(comps, candidate_id, opp))

\* the oracle answers drawn in a round: no response, an empty text, or an
\* explanation followed by a verdict, at the full cost
RoundOutcomes ==
    {o \in OracleOutcomes :
        \/ o.absent
        \/ o.cost = MaxCost /\ o.content \in {<<>>, <<"expl", "cand_first">>}}

\* per attempt of a compare call: what the oracle answers and what the fallback
\* response would name
RoundScripts == [1..MAX_TIE_RETRIES -> RoundOutcomes \X Positions]

\* judge.py lines 87-98: the loop of compare from attempt on
RECURSIVE compare_loop(_, _, _)
compare_loop(has_llm, script, attempt) ==
    LET q == _query_llm(has_llm, script[attempt + 1][1], script[attempt + 1][2])
        p == _parse_response(q.content)
    IN IF LoopContinues(attempt, p.winner)
       THEN compare_loop(has_llm, script, attempt + 1)
       ELSE [winner_presented |-> p.winner, reasoning |-> p.reasoning, cost |-> q.cost]

\* judge.py lines 76-113: compare as one call
compare(has_llm, swapped, script, pick) ==
    LET l == compare_loop(has_llm, script, 0)
    IN [winner |-> UnSwap(swapped, FallbackWinner(l.winner_presented, pick)),
        reasoning |-> FallbackReasoning(l.winner_presented, l.reasoning),
        cost |-> l.cost]

\* what a compare call of a judge with or without an oracle can return
compare_results ==
    [has_llm \in BOOLEAN |->
        {compare(has_llm, swapped, script, pick) :
            swapped \in BOOLEAN, script \in RoundScripts, pick \in Positions}]

\* records written once the loop is over
AfterCompare_batch(opponent_ids, i) ==
    IF i + 1 < Len(opponent_ids) THEN "judge" ELSE "record"

\* _run_comparisons line 357: record_comparison follows compare at once
AfterCompare(opponent_ids, i) == "record"

\* where the round goes on after item i of the loop of _run_comparisons: the
\* next opponent, or what follows the call (lines 505 and 519)
LoopPc(opponent_ids, i, phase) ==
    IF i < Len(opponent_ids) THEN "judge"
    ELSE IF phase = 1 THEN "select2" ELSE "finish"

\* the locals of evaluate_coding_agent_prompt from step 3 on: opponent_ids is
\* the list of the running phase, i counts the opponents taken from it, pending
\* holds the verdicts not recorded yet, judged the opponents judged in this
\* round, judged_pairs every pair judged so far
NoRound == [pc |-> "idle", candidate_id |-> 0, num_comparisons |-> 0, phase |-> 1,
            opponent_ids |-> <<>>, i |-> 0, n_neighbors |-> 0,
            pending |-> <<>>, judged |-> <<>>,
            wins |-> 0, losses |-> 0, judged_pairs |-> {}]

\* lines 495-498: engine and judge are constructed, phase 1 is selected
RoundBegin(candidate_id, num_comparisons, random_ids, quartile_ids) ==
    /\ round.pc = "idle"
    /\ random_ids \in get_random_candidates(bt_scores, n_random(num_comparisons),
                                            {candidate_id})
    /\ quartile_ids \in get_quartile_candidates(bt_scores, n_quartile(num_comparisons),
                                                {candidate_id})
    /\ LET phase1 == _select_opponents(comparisons, candidate_id, random_ids, quartile_ids)
       IN round' = [NoRound EXCEPT
              !.pc = LoopPc(phase1, 0, 1),
              !.candidate_id = candidate_id,
              !.num_comparisons = num_comparisons,
              !.opponent_ids = phase1,
              !.n_neighbors = n_neighbors(num_comparisons),
              !.judged_pairs = round.judged_pairs]
    /\ total_comparisons' = 0
    /\ total_cost' = 0
    /\ UNCHANGED <<store_vars, llm, call, jret, elo_vars, conns>>

\* _run_comparisons lines 323-350: the opponent's branch is missing and the
\* opponent is skipped, or the judge compares the two diffs
RoundCompare(branch_exists, j) ==
    /\ round.pc = "judge"
    /\ LET opponent_id == round.opponent_ids[round.i + 1]
       IN IF ~branch_exists
          THEN /\ round' = [round EXCEPT
                      !.i = @ + 1,
                      !.pc = LoopPc(round.opponent_ids, round.i + 1, round.phase)]
               /\ UNCHANGED <<total_comparisons, total_cost>>
          ELSE /\ Len(comparisons) + Len(round.pending) < MaxComparisons
               /\ j \in compare_results[llm]
               /\ round' = [round EXCEPT
                      !.pending = Append(@, [opponent_id |-> opponent_id,
                                             winner |-> j.winner,
                                             reasoning |-> j.reasoning]),
                      !.judged = Append(@, opponent_id),
                      !.judged_pairs = @ \cup {{round.candidate_id, opponent_id}},
                      !.i = @ + 1,
                      !.pc = AfterCompare(round.opponent_ids, round.i)]
               /\ total_comparisons' = total_comparisons + 1
               /\ total_cost' = total_cost + j.cost
    /\ UNCHANGED <<store_vars, llm, call, jret, elo_vars, conns>>

\* _run_comparisons lines 357-362: the verdict is recorded and tallied; an
\* exception of record_comparison ends the round (line 553)
RoundRecord ==
    /\ round.pc = "record"
    /\ LET item == Head(round.pending)
       IN \E r \in {record_comparison(bt_scores, comparisons, round.candidate_id,
                                      item.opponent_id, item.winner, item.reasoning)} :
             /\ bt_scores' = r.bt_scores
             /\ comparisons' = r.comparisons
             /\ ret' = [op |-> "record_comparison", error |-> r.error,
                        existed |-> r.existed]
             /\ round' =
                    IF r.error # ""
                    THEN [NoRound EXCEPT !.judged_pairs = round.judged_pairs]
                    ELSE [round EXCEPT
                             !.pending = Tail(@),
                             !.wins = @ + Bit(item.winner = "a"),
                             !.losses = @ + Bit(item.winner = "b"),
                             !.pc = IF Len(round.pending) > 1 THEN "record"
                                    ELSE LoopPc(round.opponent_ids, round.i, round.phase)]
    /\ UNCHANGED <<judge_vars, elo_vars, conns>>

\* lines 505-506: phase 2 is selected from the ratings the store holds now
RoundSelectNeighbors(neighbors) ==
    /\ round.pc = "select2"
    /\ neighbors \in get_neighbor_candidates(bt_scores, round.candidate_id,
                                             round.n_neighbors)
    /\ LET phase2 == neighbor_ids(comparisons, round.candidate_id, neighbors)
       IN round' = [round EXCEPT
              !.phase = 2, !.opponent_ids = phase2, !.i = 0,
              !.pc = LoopPc(phase2, 0, 2)]
    /\ UNCHANGED <<store_vars, judge_vars, elo_vars, conns>>

\* lines 519-523: the final score is read (the candidate's row is created when
\* it has none) and the engine is closed
RoundFinish ==
    /\ round.pc = "finish"
    /\ bt_scores' = get_score_table(bt_scores, round.candidate_id)
    /\ ret' = [NoRet EXCEPT !.op = "get_score"]
    /\ round' = [NoRound EXCEPT !.judged_pairs = round.judged_pairs]
    /\ UNCHANGED <<comparisons, judge_vars, elo_vars, conns>>

JudgeConstructed ==
    /\ total_comparisons = 0
    /\ total_cost = 0
    /\ call = IdleCall
    /\ jret = NoJRet

EloConstructed ==
    /\ elo_scores = <<>>
    /\ elo_comparisons = <<>>

\* ------------------------------- scoring.py: two connections to one store
\* Each evaluation process opens its own connection (lines 101-105: WAL
\* journal, busy timeout 30 s, python's implicit transactions). A SELECT
\* outside a transaction reads the committed tables; the first UPDATE of
\* record_comparison opens a transaction and takes the database's write lock,
\* which the commit at line 191 releases; a connection that needs the lock
\* while another one holds it waits. What a transaction wrote is seen by the
\* other connection from the commit on.
Connections == {"A", "B"}

\* the position and the locals of a record_comparison call on a connection;
\* scores and comps hold the tables as the open transaction sees them
NoCall == [pc |-> "idle", a |-> 0, b |-> 0, winner |-> "",
           score_a_old |-> 0, score_b_old |-> 0, scores |-> <<>>, comps |-> <<>>]

NoConns == [lock |-> "none", call |-> [c \in Connections |-> NoCall]]

InFlight == Cardinality({c \in Connections : conns.call[c].pc # "idle"})

\* line 165: record_comparison is called with a valid winner
ConnCall(c, a, b, winner) ==
    /\ conns.call[c].pc = "idle"
    /\ ValidWinner(winner)
    /\ Len(comparisons) + InFlight < MaxComparisons
    /\ conns' = [conns EXCEPT !.call[c] =
                     [NoCall EXCEPT !.pc = "exists", !.a = a, !.b = b, !.winner = winner]]
    /\ UNCHANGED <<store_vars, judge_vars, elo_vars, round>>

\* lines 169-170: the pair is looked up in the committed table; a stored pair
\* ends the call (both rows exist and are read)
ConnExists(c) ==
    /\ conns.call[c].pc = "exists"
    /\ conns' = [conns EXCEPT !.call[c] =
                     IF _comparison_exists(comparisons, conns.call[c].a, conns.call[c].b)
                     THEN NoCall
                     ELSE [@ EXCEPT !.pc = "get_a"]]
    /\ UNCHANGED <<store_vars, judge_vars, elo_vars, round>>

\* line 172: get_score of a, then of b; a missing row is inserted and
\* committed at once, which needs the write lock
ConnGetScore(c) ==
    /\ conns.call[c].pc \in {"get_a", "get_b"}
    /\ LET id == IF conns.call[c].pc = "get_a" THEN conns.call[c].a ELSE conns.call[c].b
       IN /\ HasRow(bt_scores, id) \/ conns.lock = "none"
          /\ bt_scores' = get_score_table(bt_scores, id)
          /\ conns' = [conns EXCEPT !.call[c] =
                           IF conns.call[c].pc = "get_a"
                           THEN [@ EXCEPT !.pc = "get_b",
                                          !.score_a_old = get_score_value(bt_scores, id)]
                           ELSE [@ EXCEPT !.pc = "update",
                                          !.score_b_old = get_score_value(bt_scores, id)]]
    /\ UNCHANGED <<comparisons, ret, judge_vars, elo_vars, round>>

\* lines 174-175: the two counter updates; the first one opens the
\* transaction, on the tables as committed by then
ConnUpdate(c) ==
    /\ conns.call[c].pc = "update"
    /\ conns.lock = "none"
    /\ LET l == conns.call[c]
           s3 == _update_candidate(bt_scores, l.a, l.winner, "a")
           s4 == _update_candidate(s3, l.b, l.winner, "b")
       IN conns' = [conns EXCEPT !.lock = c,
                                 !.call[c] = [@ EXCEPT !.pc = "insert", !.scores = s4,
                                                       !.comps = comparisons]]
    /\ UNCHANGED <<store_vars, judge_vars, elo_vars, round>>

\* lines 177-178: the INSERT; UNIQUE(candidate_a, candidate_b) raises an
\* IntegrityError, which leaves the call with the transaction still open
ConnInsert(c) ==
    /\ conns.call[c].pc = "insert"
    /\ LET l == conns.call[c]
       IN conns' = [conns EXCEPT !.call[c] =
              IF ConstraintViolated(l.comps, l.a, l.b, l.winner)
              THEN [@ EXCEPT !.pc = "failed"]
              ELSE [@ EXCEPT !.pc = "commit",
                             !.comps = _store_comparison(l.comps, l.a, l.b, l.winner,
                                           l.score_a_old, l.score_b_old,
                                           l.score_a_old, l.score_b_old,
                                           ReasoningFor(l.winner))]]
    /\ UNCHANGED <<store_vars, judge_vars, elo_vars, round>>

\* lines 180-191: the refit, the after-scores and the commit
ConnCommit(c) ==
    /\ conns.call[c].pc = "commit"
    /\ LET l == conns.call[c]
       IN \E s5 \in {_recompute_all_scores(l.scores, l.comps)} :
             /\ bt_scores' = s5
             /\ comparisons' = UpdateAfterScores(l.comps, l.a, l.b, s5[l.a].bt_score,
                                                 s5[l.b].bt_score)
    /\ conns' = [conns EXCEPT !.lock = "none", !.call[c] = NoCall]
    /\ UNCHANGED <<ret, judge_vars, elo_vars, round>>

\* after the IntegrityError: the connection is closed, which rolls the counter
\* updates back, or it is used again and the next commit on it (line 154 or
\* 191) writes them
ConnAfterError(c, committed) ==
    /\ conns.call[c].pc = "failed"
    /\ bt_scores' = IF committed THEN conns.call[c].scores ELSE bt_scores
    /\ conns' = [conns EXCEPT !.lock = "none", !.call[c] = NoCall]
    /\ UNCHANGED <<comparisons, ret, judge_vars, elo_vars, round>>


Init ==
    /\ bt_scores = <<>>
    /\ comparisons = <<>>
    /\ ret = NoRet
    /\ llm = FALSE
    /\ JudgeConstructed
    /\ EloConstructed
    /\ round = NoRound
    /\ conns = NoConns

Next ==
    \/ \E id \in Candidates : GetScore(id)
    \/ \E a \in Candidates, b \in Candidates, w \in WinnerArgs : RecordComparison(a, b, w)
    \/ \E a \in Candidates, b \in Candidates : ComparisonExists(a, b)
    \/ \E a \in Candidates, b \in Candidates : GetComparison(a, b)

Spec == Init /\ [][Next]_vars

JudgeInit ==
    /\ bt_scores = <<>>
    /\ comparisons = <<>>
    /\ ret = NoRet
    /\ llm \in BOOLEAN
    /\ JudgeConstructed
    /\ EloConstructed
    /\ round = NoRound
    /\ conns = NoConns

JudgeNext ==
    \/ \E x \in Payloads, y \in Payloads, coin \in BOOLEAN, detailed \in BOOLEAN :
           CompareBegin(x, y, coin, detailed)
    \/ \E o \in OracleOutcomes, m \in Positions : CompareAttempt(o, m)
    \/ \E pick \in Positions : CompareFinish(pick)
    \/ ResetStatistics

JudgeSpec == JudgeInit /\ [][JudgeNext]_vars

EloNext ==
    \/ \E id \in Candidates : GetElo(id)
    \/ \E a \in Candidates, b \in Candidates, w \in WinnerArgs : EloRecordComparison(a, b, w)

EloSpec == Init /\ [][EloNext]_vars

\* the prior ratings of an update: the floats from 50 below the initial
\* rating upwards
EloGrid == {initial_elo - 100 * Ulp(initial_elo) + i * Ulp(initial_elo) : i \in 0..MaxGridSteps}

\* an ELO store in which candidates 1 and 2 hold ratings of the grid and no
\* comparison is stored yet
EloUpdateInit ==
    /\ bt_scores = <<>>
    /\ comparisons = <<>>
    /\ ret = NoRet
    /\ llm = FALSE
    /\ JudgeConstructed
    /\ elo_scores \in {Array([id \in {1, 2} |->
                          [NewEloRow EXCEPT !.elo_score = IF id = 1 THEN elo_a ELSE elo_b]]) :
                          elo_a \in EloGrid, elo_b \in EloGrid}
    /\ elo_comparisons = <<>>
    /\ round = NoRound
    /\ conns = NoConns

\* the update of lines 368-385 applied to the two ratings, in either order
EloUpdateNext ==
    \/ \E winner \in Winners : EloRecordComparison(1, 2, winner)
    \/ \E winner \in Winners : EloRecordComparison(2, 1, winner)

EloUpdateSpec == EloUpdateInit /\ [][EloUpdateNext]_vars

RoundNext ==
    \/ \E candidate_id \in RoundCandidateIds(bt_scores), num_comparisons \in Budgets :
           \E random_ids \in get_random_candidates(bt_scores, n_random(num_comparisons),
                                                   {candidate_id}),
              quartile_ids \in get_quartile_candidates(bt_scores,
                                  n_quartile(num_comparisons), {candidate_id}) :
               RoundBegin(candidate_id, num_comparisons, random_ids, quartile_ids)
    \/ \E branch_exists \in BOOLEAN, j \in compare_results[llm] :
           RoundCompare(branch_exists, j)
    \/ RoundRecord
    \/ \E neighbors \in get_neighbor_candidates(bt_scores, round.candidate_id,
                                                round.n_neighbors) :
           RoundSelectNeighbors(neighbors)
    \/ RoundFinish

RoundSpec == Init /\ [][RoundNext]_vars

\* record_comparison calls of two connections, statement by statement
ConcurrentNext ==
    \/ \E c \in Connections, a \in Candidates, b \in Candidates, winner \in Winners :
           ConnCall(c, a, b, winner)
    \/ \E c \in Connections : ConnExists(c)
    \/ \E c \in Connections : ConnGetScore(c)
    \/ \E c \in Connections : ConnUpdate(c)
    \/ \E c \in Connections : ConnInsert(c)
    \/ \E c \in Connections : ConnCommit(c)
    \/ \E c \in Connections, committed \in BOOLEAN : ConnAfterError(c, committed)

ConcurrentSpec == Init /\ [][ConcurrentNext]_vars

\* the selection of step 3 alone, for every budget, over the populations that
\* get_score builds
SelectNext ==
    \/ \E id \in RoundCandidates : round.pc = "idle" /\ GetScore(id)
    \/ \E candidate_id \in RoundCandidates, num_comparisons \in QuotaBudgets :
           \E random_ids \in get_random_candidates(bt_scores, n_random(num_comparisons),
                                                   {candidate_id}),
              quartile_ids \in get_quartile_candidates(bt_scores,
                                  n_quartile(num_comparisons), {candidate_id}) :
               RoundBegin(candidate_id, num_comparisons, random_ids, quartile_ids)

SelectSpec == Init /\ [][SelectNext]_vars

\* a process constructs one scoring engine and uses it: the BT-MM engine
\* (evaluate.py) or the ELO engine
EngineNext ==
    \/ elo_scores = <<>> /\ elo_comparisons = <<>> /\ Next
    \/ bt_scores = <<>> /\ comparisons = <<>> /\ EloNext

EngineSpec == Init /\ [][EngineNext]_vars

\* the transitive chain of test_mm_convergence on a fresh engine: three
\* records, each won by the loser of the record before against a new id
ChainCandidates == 1..(MaxCandidates + 2)

ChainLength == 3

WinnerId(row) == IF row.winner = "a" THEN row.candidate_a ELSE row.candidate_b

LoserId(row) == IF row.winner = "a" THEN row.candidate_b ELSE row.candidate_a

ChainRecord(a, b, winner) ==
    /\ Len(comparisons) < ChainLength
    /\ winner \in {"a", "b"}
    /\ a # b
    /\ LET row == [candidate_a |-> a, candidate_b |-> b, winner |-> winner]
       IN IF comparisons = <<>> THEN TRUE
          ELSE /\ WinnerId(row) = LoserId(comparisons[Len(comparisons)])
               /\ LoserId(row) \notin DOMAIN bt_scores
    /\ \E r \in {record_comparison(bt_scores, comparisons, a, b, winner,
                                   ReasoningFor(winner))} :
          /\ bt_scores' = r.bt_scores
          /\ comparisons' = r.comparisons
          /\ ret' = [op |-> "record_comparison", error |-> r.error, existed |-> r.existed]
    /\ UNCHANGED <<judge_vars, elo_vars, round, conns>>

ChainNext == \E a \in ChainCandidates, b \in ChainCandidates, w \in Winners : ChainRecord(a, b, w)

ChainSpec == Init /\ [][ChainNext]_vars

\* the readings of time.time(): the wall clock is adjustable and of finite
\* resolution, two readings can be equal or run backwards
ClockReadings == 1..MaxClock

\* the timestamp column of the row the call inserted holds the reading now
InsertedAt(comps, stored_before, now) ==
    [k \in 1..Len(comps) |->
        IF k > stored_before THEN [comps[k] EXCEPT !.timestamp = now] ELSE comps[k]]

\* record_comparison with the reading of the wall clock at the INSERT
HistoryRecord(a, b, winner, now) ==
    /\ Len(comparisons) < MaxComparisons
    /\ \E r \in {record_comparison(bt_scores, comparisons, a, b, winner,
                                   ReasoningFor(winner))} :
          /\ bt_scores' = r.bt_scores
          /\ comparisons' = InsertedAt(r.comparisons, Len(comparisons), now)
          /\ ret' = [op |-> "record_comparison", error |-> r.error, existed |-> r.existed]
    /\ UNCHANGED <<judge_vars, elo_vars, round, conns>>

HistoryNext ==
    \/ \E a \in Candidates, b \in Candidates, w \in Winners, now \in ClockReadings :
           HistoryRecord(a, b, w, now)
    \/ \E id \in Candidates : GetComparisonHistory(id)

HistorySpec == Init /\ [][HistoryNext]_vars

\* the store with its queries
QueryNext ==
    \/ \E id \in Candidates : GetScore(id)
    \/ /\ Len(comparisons) < MaxQueryRecords
       /\ \E a \in Candidates, b \in Candidates, w \in WinnerArgs : RecordComparison(a, b, w)
    \/ \E id \in Candidates : GetStats(id)
    \/ \E a \in Candidates, b \in Candidates : ComparisonExists(a, b)
    \/ \E a \in Candidates, b \in Candidates : GetComparison(a, b)
    \/ \E top_n \in TopNs, min_comparisons \in MinComparisons : GetRankings(top_n, min_comparisons)
    \/ \E n \in SampleSizes, exclude \in SUBSET Candidates : GetRandomCandidates(n, exclude)
    \/ \E id \in Candidates : GetComparisonHistory(id)
    \/ ExportData

QuerySpec == Init /\ [][QueryNext]_vars

\* ------------------------------------------- _parse_response called alone
\* test_response_parsing hands response texts to _parse_response directly;
\* the texts are drawn from the kinds of lines of a response, the confidence
\* line included
MaxParseLines == 3

ParseLines == Lines \cup {"conf"}

ParseResponses == UNION {[1..n -> ParseLines] : n \in 0..MaxParseLines}

\* the call and what it returned
ParseResponse(response) ==
    /\ \E p \in {_parse_response(response)} :
           call' = [pc |-> "parsed", response |-> response,
                    winner_presented |-> p.winner, reasoning |-> p.reasoning]
    /\ UNCHANGED <<llm, total_comparisons, total_cost, jret, store_vars, elo_vars, round, conns>>

ParseNext == \E response \in ParseResponses : ParseResponse(response)

ParseSpec == JudgeInit /\ [][ParseNext]_vars

\* --------------------------- evaluate.py: evaluate_coding_agent_prompt
\* One run of the orchestrator, in the variable round. The steps of the try
\* block are calls into the collaborators (codebase, git, coding agent, store,
\* judge); each either completes or raises an Exception, whose str() is the
\* error text: a text, or the empty text of an exception raised without
\* arguments (TimeoutError(), AssertionError()).
ErrorTexts == {"", "Git command failed"}

EvalSteps == <<"prepare", "branch", "agent", "select", "judge", "record", "final">>

\* parent_branch as load_program returns it: absent, blank, or a branch name
NoParent == "<None>"

ParentBranches == {NoParent, "", "evo_parent"}

FinalScores == {0, initial_score}

default_branch == "master"

\* line 472, "parent_branch or default_branch": None and "" are falsy
from_branch(parent_branch) ==
    IF parent_branch \in {NoParent, ""} THEN default_branch ELSE parent_branch

MissingPrompt == "Patch application failed and no fallback available"

MissingParent == "JSON program missing required 'parent_branch'"

NoMetrics == [combined_score |-> 0, error |-> "", branch_name |-> ""]

_failure_metrics(error) == [combined_score |-> 0, error |-> error, branch_name |-> ""]

NotWritten == [done |-> FALSE, correct |-> FALSE, error |-> "", metrics |-> NoMetrics]

\* correct.json and metrics.json
_write_results(metrics, correct, error) ==
    [done |-> TRUE, correct |-> correct, error |-> error, metrics |-> metrics]

\* "not error" for a str: the empty text is falsy
Falsy(text) == text = ""

\* step is the index in EvalSteps of the step to run; from_branch the branch
\* the candidate's branch starts from; raised and raised_text
\* record the exception a step raised; sync_all_scores tells whether the
\* rankings were read (None otherwise); returned holds the metrics returned
NoEval == [pc |-> "idle", step |-> 0, evo_db |-> FALSE, from_branch |-> "",
           raised |-> FALSE, raised_text |-> "", metrics |-> NoMetrics,
           sync_all_scores |-> FALSE,
           written |-> NotWritten, synced |-> FALSE, returned |-> NoMetrics]

\* lines 425-448: the program is loaded; the two early returns
EvalLoad(has_prompt, is_json, parent_branch, evo_db) ==
    /\ round.pc = "idle"
    /\ round' =
           IF ~has_prompt
           THEN [NoEval EXCEPT !.pc = "returned",
                    !.metrics = _failure_metrics(MissingPrompt),
                    !.written = _write_results(_failure_metrics(MissingPrompt), FALSE,
                                               MissingPrompt),
                    !.returned = _failure_metrics(MissingPrompt)]
           ELSE IF is_json /\ parent_branch \in {NoParent, ""}
           THEN [NoEval EXCEPT !.pc = "returned",
                    !.metrics = _failure_metrics(MissingParent),
                    !.written = _write_results(_failure_metrics(MissingParent), FALSE,
                                               MissingParent),
                    !.returned = _failure_metrics(MissingParent)]
           ELSE [NoEval EXCEPT !.pc = "try", !.step = 1, !.evo_db = evo_db,
                    !.from_branch = from_branch(parent_branch)]
    /\ UNCHANGED <<store_vars, judge_vars, elo_vars, conns>>

\* lines 450-551: a step of the try block completes; after the last one the
\* metrics are built from the final score and the rankings are kept for the sync
EvalStepDone(final_score) ==
    /\ round.pc = "try"
    /\ round' =
           IF round.step < Len(EvalSteps)
           THEN [round EXCEPT !.step = @ + 1]
           ELSE [round EXCEPT !.pc = "write", !.sync_all_scores = TRUE,
                    !.metrics = [combined_score |-> final_score, error |-> "",
                                 branch_name |-> "evo_candidate"]]
    /\ UNCHANGED <<store_vars, judge_vars, elo_vars, conns>>

\* lines 552-560: a step raises, the handler builds the failure metrics
EvalStepRaises(text) ==
    /\ round.pc = "try"
    /\ round' = [round EXCEPT !.pc = "write", !.raised = TRUE, !.raised_text = text,
                    !.metrics = _failure_metrics(text), !.sync_all_scores = FALSE]
    /\ UNCHANGED <<store_vars, judge_vars, elo_vars, conns>>

\* lines 562-577: results are written, the scores synced, the metrics returned
EvalWrite ==
    /\ round.pc = "write"
    /\ LET error == round.metrics.error
           correct == Falsy(error)
       IN round' = [round EXCEPT !.pc = "returned",
                       !.written = _write_results(round.metrics, correct, error),
                       !.synced = round.sync_all_scores /\ round.evo_db,
                       !.returned = round.metrics]
    /\ UNCHANGED <<store_vars, judge_vars, elo_vars, conns>>

\* the next evaluation is a new call
EvalAgain ==
    /\ round.pc = "returned"
    /\ round' = NoEval
    /\ UNCHANGED <<store_vars, judge_vars, elo_vars, conns>>

EvalInit ==
    /\ bt_scores = <<>>
    /\ comparisons = <<>>
    /\ ret = NoRet
    /\ llm = FALSE
    /\ JudgeConstructed
    /\ EloConstructed
    /\ round = NoEval
    /\ conns = NoConns

EvalNext ==
    \/ \E has_prompt \in BOOLEAN, is_json \in BOOLEAN, parent_branch \in ParentBranches,
          evo_db \in BOOLEAN : EvalLoad(has_prompt, is_json, parent_branch, evo_db)
    \/ \E final_score \in FinalScores : EvalStepDone(final_score)
    \/ \E text \in ErrorTexts : EvalStepRaises(text)
    \/ EvalWrite
    \/ EvalAgain

EvalSpec == EvalInit /\ [][EvalNext]_vars

\* ------------------------------ judge.py: compare under both coin outcomes
\* The same call compare(task, candidate_a, candidate_b) run once with the
\* coin of line 78 showing "not swapped" and once showing "swapped", against
\* one oracle. The oracle answers a prompt, which holds the two payloads in
\* the order presented: oracle[<<first, second>>] is the response text it
\* gives to that prompt, at every attempt of a call.
OracleScript(response) ==
    [k \in 1..MAX_TIE_RETRIES |->
        <<[absent |-> FALSE, content |-> response, cost |-> 0], "first">>]

\* lines 78-113 for one outcome of the coin
compare_with(has_llm, oracle, candidate_a, candidate_b, swapped, pick) ==
    LET first == Arg(candidate_a, candidate_b, Presentation(swapped)[1])
        second == Arg(candidate_a, candidate_b, Presentation(swapped)[2])
        response == oracle[<<first, second>>]
        r == compare(has_llm, swapped, OracleScript(response), pick)
    IN [first |-> first, second |-> second, response |-> response,
        winner |-> r.winner, reasoning |-> r.reasoning]

\* the two runs of the first call made to a judge
CompareBothFlips(candidate_a, candidate_b, response_ab, response_ba, pick) ==
    /\ call.pc = "idle"
    /\ jret = NoJRet
    /\ \E oracle \in {[p \in Payloads \X Payloads |->
                          IF p = <<candidate_a, candidate_b>> THEN response_ab
                          ELSE response_ba]} :
           jret' = [candidate_a |-> candidate_a, candidate_b |-> candidate_b,
                    straight |-> compare_with(llm, oracle, candidate_a, candidate_b,
                                              FALSE, pick[1]),
                    swapped |-> compare_with(llm, oracle, candidate_a, candidate_b,
                                             TRUE, pick[2])]
    /\ UNCHANGED <<llm, total_comparisons, total_cost, call, store_vars, elo_vars, round, conns>>

CoinNext ==
    /\ jret = NoJRet
    /\ \E candidate_a \in Payloads, candidate_b \in Payloads,
          response_ab \in Responses, response_ba \in Responses,
          pick \in Positions \X Positions :
           CompareBothFlips(candidate_a, candidate_b, response_ab, response_ba, pick)

CoinSpec == JudgeInit /\ [][CoinNext]_vars

\* a fresh engine that only records: every sequence of record_comparison calls
\* with valid winners
OrderNext == \E a \in Candidates, b \in Candidates, w \in Winners : RecordComparison(a, b, w)

OrderSpec == Init /\ [][OrderNext]_vars

\* ==================================================================== claims
PairOf(row) == {row.candidate_a, row.candidate_b}

PairStored(a, b) == \E k \in 1..Len(comparisons) : PairOf(comparisons[k]) = {a, b}

AllFailed(log) == \A k \in 1..Len(log) : log[k].winner = "tie"

\* C1 - pair uniqueness: in every state reachable by get_score and
\* record_comparison calls the store holds at most one comparison record per
\* unordered pair {a, b}; never both an (a, b) row and a (b, a) row.
C1_PairUniqueness ==
    \A i \in 1..Len(comparisons), j \in 1..Len(comparisons) :
        i # j => PairOf(comparisons[i]) # PairOf(comparisons[j])

\* a stored pair has been recorded again and the store is full of distinct pairs
C1_Witness ==
    /\ ret.op = "record_comparison" /\ ret.existed
    /\ Len(comparisons) = MaxComparisons

\* C2 - idempotence of record: once the pair {a, b} is stored, a further
\* record_comparison(a, b, w) or record_comparison(b, a, w), for any winner w,
\* returns without error and leaves every rating row and every comparison
\* record as they are.
C2_Idempotence ==
    \A a \in Candidates, b \in Candidates, w \in Winners :
        PairStored(a, b) =>
            LET r == record_comparison(bt_scores, comparisons, a, b, w, ReasoningFor(w))
            IN r.error = "" /\ r.bt_scores = bt_scores /\ r.comparisons = comparisons

\* a pair of two different candidates is stored and has just been recorded again
C2_Witness ==
    /\ ret.op = "record_comparison" /\ ret.existed /\ ret.error = ""
    /\ \E k \in 1..Len(comparisons) :
           comparisons[k].candidate_a # comparisons[k].candidate_b

\* C3 - symmetry of lookups: in every reachable state and for all a, b,
\* comparison_exists(a, b) = comparison_exists(b, a) and get_comparison(a, b)
\* returns the same record, or the same absence, as get_comparison(b, a).
C3_LookupSymmetry ==
    \A a \in Candidates, b \in Candidates :
        /\ comparison_exists(comparisons, a, b) = comparison_exists(comparisons, b, a)
        /\ get_comparison(comparisons, a, b) = get_comparison(comparisons, b, a)

\* a lookup has run on a store that holds a pair of two different candidates
C3_Witness ==
    /\ ret.op \in {"comparison_exists", "get_comparison"}
    /\ \E a \in Candidates, b \in Candidates :
           a # b /\ get_comparison(comparisons, b, a) # <<>>
                 /\ get_comparison(comparisons, b, a)[1].candidate_a = a

\* C4 - invalid winner: record_comparison(a, b, w) with w outside {a, b, tie}
\* raises ValueError and leaves the store unchanged (no rating row created, no
\* counter changed, no comparison record inserted), whether or not a and b
\* were seen before.
C4_InvalidWinner ==
    \A a \in Candidates, b \in Candidates, w \in WinnerArgs \ Winners :
        LET r == record_comparison(bt_scores, comparisons, a, b, w, ReasoningFor(w))
        IN r.error = "ValueError" /\ r.bt_scores = bt_scores /\ r.comparisons = comparisons

\* an invalid winner has been refused while one candidate is known and one is not
C4_Witness ==
    /\ ret.op = "record_comparison" /\ ret.error = "ValueError"
    /\ DOMAIN bt_scores # {} /\ DOMAIN bt_scores # Candidates

\* C5 - decisive judge: whatever the oracle answers on each attempt and
\* whatever the coin shows, compare and compare_detailed return a winner in
\* {a, b}, never "tie", also when both payloads are identical.
C5_Decisive == jret.valid => jret.winner \in {"a", "b"}

\* compare_detailed has returned for two identical payloads after every
\* attempt failed to parse
C5_Witness ==
    /\ jret.valid /\ jret.detailed /\ jret.first = jret.second
    /\ AllFailed(jret.log)

\* C6 - bounded retries, as claimed: a compare call in which every response is
\* unparseable makes exactly 3 oracle queries, and no call makes more than 3.
C6_ThreeQueries ==
    jret.valid =>
        /\ Len(jret.log) <= 3
        /\ AllFailed(jret.log) => Len(jret.log) = 3

\* C7 - degraded marker: the reasoning compare returns carries the note exactly
\* when every attempt of the call failed to parse (and the winner was picked at
\* random); a winner taken from a parsed response never carries it.
C7_DegradedMarker ==
    jret.valid => (NOTE \in Range(jret.reasoning) <=> AllFailed(jret.log))

\* a call has returned a reasoning that carries the note
C7_Witness == jret.valid /\ NOTE \in Range(jret.reasoning)

\* C8 - un-swap: for both outcomes of the coin flip compare returns the label
\* of the caller's argument that was presented at the position chosen.
C8_UnSwap ==
    jret.valid =>
        jret.winner = jret.order[IF jret.presented = "first" THEN 1 ELSE 2]

\* candidate_b was presented first, the oracle chose "first"
C8_Witness ==
    /\ jret.valid /\ jret.order = <<"b", "a">> /\ jret.presented = "first"
    /\ ~AllFailed(jret.log)

NoResponse(log) == \E k \in 1..Len(log) : log[k].absent

\* C9 - oracle transport failure: an attempt on which the oracle gives no
\* response parses the fallback response instead, which names a position and
\* ends the loop; the call completes with a winner in {a, b} and adds 1 to
\* total_comparisons.
C9_TransportFailure ==
    /\ [](\A k \in 1..Len(call.log) :
              call.log[k].absent =>
                  /\ call.log[k].mock
                  /\ call.log[k].winner \in Positions
                  /\ call.pc = "after_loop")
    /\ [][NoResponse(call.log) /\ call'.pc = "idle" =>
              /\ jret'.valid /\ jret'.winner \in {"a", "b"}
              /\ total_comparisons' = total_comparisons + 1]_vars

\* a call in which the oracle gave no response on the second attempt has returned
C9_Witness ==
    /\ jret.valid /\ Len(jret.log) = 2 /\ jret.log[2].absent
    /\ total_comparisons > 0

OldCount(c, field) == IF c \in DOMAIN bt_scores THEN bt_scores[c][field] ELSE 0

Delta(c) ==
    <<bt_scores'[c].num_comparisons - OldCount(c, "num_comparisons"),
      bt_scores'[c].wins - OldCount(c, "wins"),
      bt_scores'[c].losses - OldCount(c, "losses"),
      bt_scores'[c].ties - OldCount(c, "ties")>>

NewRecordCounts ==
    Len(comparisons') = Len(comparisons) + 1 =>
        LET row == comparisons'[Len(comparisons')]
            a == row.candidate_a
            b == row.candidate_b
            w == row.winner
        IN a # b =>
            /\ Delta(a) = (IF w = "a" THEN <<1, 1, 0, 0>>
                           ELSE IF w = "b" THEN <<1, 0, 1, 0>> ELSE <<1, 0, 0, 1>>)
            /\ Delta(b) = (IF w = "a" THEN <<1, 0, 1, 0>>
                           ELSE IF w = "b" THEN <<1, 1, 0, 0>> ELSE <<1, 0, 0, 1>>)

CountersBalanced ==
    /\ \A c \in DOMAIN bt_scores :
           bt_scores[c].num_comparisons
               = bt_scores[c].wins + bt_scores[c].losses + bt_scores[c].ties
    /\ SumOver([c \in DOMAIN bt_scores |-> bt_scores[c].wins], DOMAIN bt_scores)
           = SumOver([c \in DOMAIN bt_scores |-> bt_scores[c].losses], DOMAIN bt_scores)

\* C10 - counter consistency: a new record of a pair a # b adds 1 to
\* comparison_count of a and of b and to exactly one outcome counter of each
\* (a.wins and b.losses, a.losses and b.wins, or both ties); in every reachable
\* state comparison_count = wins + losses + ties for every candidate and the
\* wins of all candidates add up to their losses.
C10_CounterConsistency == [][NewRecordCounts]_vars /\ []CountersBalanced

\* a tie between two different candidates has just been recorded as new
C10_Witness ==
    /\ ret.op = "record_comparison" /\ ~ret.existed /\ ret.error = ""
    /\ comparisons # <<>>
    /\ LET row == comparisons[Len(comparisons)]
       IN row.candidate_a # row.candidate_b /\ row.winner = "tie"

ZeroCounters(row) ==
    row.num_comparisons = 0 /\ row.wins = 0 /\ row.losses = 0 /\ row.ties = 0

\* C11 - initialization: the first get_score (get_elo) of a candidate not seen
\* before returns the configured initial value (1.0 for BT-MM, 1500 for ELO)
\* and creates its rating row with all counters zero; a read repeated before
\* any comparison is recorded returns the same value and creates no row.
C11_Initialization ==
    \A id \in Candidates :
        /\ ~HasRow(bt_scores, id) =>
               /\ get_score_value(bt_scores, id) = 1 * Scale
               /\ DOMAIN get_score_table(bt_scores, id) = DOMAIN bt_scores \cup {id}
               /\ get_score_table(bt_scores, id)[id].bt_score = 1 * Scale
               /\ ZeroCounters(get_score_table(bt_scores, id)[id])
        /\ HasRow(bt_scores, id) /\ comparisons = <<>> =>
               /\ get_score_value(bt_scores, id) = 1 * Scale
               /\ get_score_table(bt_scores, id) = bt_scores
        /\ ~HasRow(elo_scores, id) =>
               /\ get_elo_value(elo_scores, id) = 1500 * Unit
               /\ DOMAIN get_elo_table(elo_scores, id) = DOMAIN elo_scores \cup {id}
               /\ get_elo_table(elo_scores, id)[id].elo_score = 1500 * Unit
               /\ ZeroCounters(get_elo_table(elo_scores, id)[id])
        /\ HasRow(elo_scores, id) /\ elo_comparisons = <<>> =>
               /\ get_elo_value(elo_scores, id) = 1500 * Unit
               /\ get_elo_table(elo_scores, id) = elo_scores

\* a candidate has been read before any comparison while another is unseen
C11_Witness ==
    /\ ret.op = "get_score" /\ comparisons = <<>>
    /\ DOMAIN bt_scores # {} /\ DOMAIN bt_scores # Candidates

\* the after-score the record of a pair holds for candidate x
StoredAfter(row, x) ==
    IF row.candidate_a = x THEN row.score_a_after ELSE row.score_b_after

C13_Immutable ==
    [][\A k \in 1..Len(comparisons) :
          /\ k <= Len(comparisons')
          /\ comparisons'[k].candidate_a = comparisons[k].candidate_a
          /\ comparisons'[k].candidate_b = comparisons[k].candidate_b
          /\ comparisons'[k].winner = comparisons[k].winner
          /\ comparisons'[k].score_a_before = comparisons[k].score_a_before
          /\ comparisons'[k].score_b_before = comparisons[k].score_b_before
          /\ comparisons'[k].judge_reasoning = comparisons[k].judge_reasoning]_vars

\* a stored pair has been recorded again in a store that holds a tie between
\* two different candidates and a later record
C13_Witness ==
    /\ ret.op = "record_comparison" /\ ret.existed /\ ret.error = ""
    /\ Len(comparisons) > 1
    /\ comparisons[1].candidate_a # comparisons[1].candidate_b
    /\ comparisons[1].winner = "tie"

\* C14 - nothing is ever deleted: under every sequence of store operations a
\* candidate that has a rating row keeps one and a pair for which
\* comparison_exists is true stays so; the set of rating rows and the set of
\* comparison records only grow.
C14_NothingDeleted ==
    [][/\ DOMAIN bt_scores \subseteq DOMAIN bt_scores'
       /\ Len(comparisons) <= Len(comparisons')
       /\ \A k \in 1..Len(comparisons) :
              LET a == comparisons[k].candidate_a
                  b == comparisons[k].candidate_b
              IN /\ \E l \in 1..Len(comparisons') : RowMatches(comparisons'[l], a, b)
                 /\ comparison_exists(comparisons', a, b)
                 /\ comparison_exists(comparisons', b, a)]_vars

\* a comparison has been recorded and refitted while a candidate that took
\* part in no comparison has a rating row
C14_Witness ==
    /\ ret.op = "record_comparison" /\ ~ret.existed /\ ret.error = ""
    /\ comparisons # <<>>
    /\ \E c \in DOMAIN bt_scores : bt_scores[c].num_comparisons = 0

\* a step of a round that selects the opponents of phase 1 / of phase 2
SelectsPhase1 == round.pc = "idle" /\ round'.pc # "idle"

SelectsPhase2 == round.pc = "select2" /\ round'.pc # "select2"

\* the candidate of the round has a stored comparison with opp
RoundCompared(opp) == comparison_exists(comparisons, round.candidate_id, opp)

\* C15 - opponent exclusion: every opponent selected for a candidate in phase
\* 1 or phase 2 of an evaluation round differs from the candidate and has no
\* stored comparison with it at the moment it is selected, and the phase-1
\* list contains no id twice.
C15_OpponentExclusion ==
    [][/\ (SelectsPhase1 \/ SelectsPhase2) =>
              \A k \in 1..Len(round'.opponent_ids) :
                  /\ round'.opponent_ids[k] # round'.candidate_id
                  /\ ~comparison_exists(comparisons, round'.candidate_id,
                                        round'.opponent_ids[k])
       /\ SelectsPhase1 =>
              \A k \in 1..Len(round'.opponent_ids), l \in 1..Len(round'.opponent_ids) :
                  k # l => round'.opponent_ids[k] # round'.opponent_ids[l]]_vars

\* phase 2 has been selected after a phase 1 whose comparisons are stored, and
\* it holds fewer opponents than the quota although the population has enough
\* other candidates: a neighbour was left out as already compared
C15_Witness ==
    /\ round.pc \in {"judge", "finish"} /\ round.phase = 2 /\ round.i = 0
    /\ round.judged # <<>> /\ round.pending = <<>>
    /\ \A k \in 1..Len(round.judged) : RoundCompared(round.judged[k])
    /\ Cardinality(DOMAIN bt_scores \ {round.candidate_id}) >= round.n_neighbors
    /\ Len(round.opponent_ids) < round.n_neighbors

\* what _select_opponents returns while phase 1 runs: the phase-1 list and the
\* phase-2 quota
SelectedTotal == Len(round.opponent_ids) + round.n_neighbors

RoundRecorded(opp) ==
    \E k \in 1..Len(comparisons) : RowMatches(comparisons[k], round.candidate_id, opp)

\* C17 - round ordering: within a round each judged comparison is recorded
\* (and the ratings refitted) before the next opponent is judged, and phase 2
\* is selected only after every phase-1 comparison of the round has been
\* recorded, from ratings that are the refit of a store holding all of them.
C17_RoundOrdering ==
    /\ round.pc \in {"judge", "select2", "finish"} =>
           /\ round.pending = <<>>
           /\ \A k \in 1..Len(round.judged) : RoundRecorded(round.judged[k])
    /\ (round.pc = "select2" /\ round.judged # <<>>) =>
           bt_scores = _recompute_all_scores(bt_scores, comparisons)

\* phase 2 is about to be selected after two phase-1 comparisons of the round
C17_Witness ==
    /\ round.pc = "select2"
    /\ Len(round.judged) = 2
    /\ Len(comparisons) >= 2

\* a step in which the judge is invoked: one more opponent is judged
JudgeInvoked == Len(round'.judged) = Len(round.judged) + 1

\* C18 - each pair judged at most once: over any sequence of sequential rounds
\* against one store the judge is invoked at most once for any unordered pair
\* of candidates, and never for a pair that has a stored comparison.
C18_JudgedAtMostOnce ==
    [][JudgeInvoked =>
          LET opponent_id == round'.judged[Len(round'.judged)]
          IN /\ {round.candidate_id, opponent_id} \notin round.judged_pairs
             /\ ~comparison_exists(comparisons, round.candidate_id, opponent_id)]_vars

\* the round has judged one opponent, and its candidate was judged against
\* another one in an earlier round
C18_Witness ==
    /\ Len(round.judged) = 1
    /\ \E p \in round.judged_pairs :
           round.candidate_id \in p /\ round.judged[1] \notin p

\* the number of stored comparisons c takes part in, a self pair counted twice
Appearances(c) ==
    Cardinality({k \in 1..Len(comparisons) : comparisons[k].candidate_a = c})
    + Cardinality({k \in 1..Len(comparisons) : comparisons[k].candidate_b = c})

\* C19 - serialized record under concurrent writers: when two connections to
\* one store call record_comparison concurrently for the same unordered pair,
\* in the same or in opposite argument order, exactly one comparison record
\* results and each candidate's counters are incremented exactly once: no
\* interleaving of the two calls breaks pair uniqueness or counter consistency.
C19_Serialized ==
    /\ \A i \in 1..Len(comparisons), j \in 1..Len(comparisons) :
           i # j => PairOf(comparisons[i]) # PairOf(comparisons[j])
    /\ \A c \in DOMAIN bt_scores : bt_scores[c].num_comparisons = Appearances(c)

\* the sum of the two rating changes a stored ELO comparison holds
EloChangeSum(row) ==
    (row.elo_a_after - row.elo_a_before) + (row.elo_b_after - row.elo_b_before)

ChainOrder ==
    [k \in 1..(Len(comparisons) + 1) |->
        IF k <= Len(comparisons) THEN WinnerId(comparisons[k])
        ELSE LoserId(comparisons[Len(comparisons)])]

\* C21 - BT-MM transitive chain: on a fresh store, after exactly A beats B,
\* B beats C and C beats D were recorded (each record refits all scores), the
\* only list get_rankings() can return holds A, B, C, D in this order.
C21_ChainRanking ==
    Len(comparisons) = ChainLength => get_rankings(bt_scores, None, 0) = {ChainOrder}

C21_Witness ==
    /\ Len(comparisons) = ChainLength
    /\ Cardinality(DOMAIN bt_scores) = ChainLength + 1
    /\ comparisons[2].winner = "b"
    /\ ChainOrder \in get_rankings(bt_scores, None, 0)
    /\ bt_scores[ChainOrder[3]].bt_score > bt_scores[ChainOrder[4]].bt_score

\* the comparison list _recompute_all_scores hands to compute_bt_mm
RefitInput(comps) ==
    [k \in 1..Len(comps) |->
        [candidate_a |-> comps[k].candidate_a, candidate_b |-> comps[k].candidate_b,
         score2 |-> WinnerScore2(comps[k].winner)]]

\* every divisor theta_old[i] + theta_old[j] of the passes the loop makes from
\* theta is positive
RECURSIVE DivisorsPositive(_, _, _, _, _)
DivisorsPositive(cands, wins2, cm, theta, iters) ==
    \/ iters = 0
    \/ /\ \A i \in cands, j \in cands :
              wins2[i] > 0 /\ cm[i][j] > 0 => theta[i] + theta[j] > 0
       /\ \E r \in {MMBody(cands, wins2, cm, [theta |-> theta, done |-> FALSE])} :
              r.done \/ DivisorsPositive(cands, wins2, cm, r.theta, iters - 1)

\* the last call stored a new comparison: the scores in the table are those of
\* the refit it ran
AfterRefit == ret.op = "record_comparison" /\ ret.error = "" /\ ~ret.existed

RECURSIVE LoopRun(_, _, _, _, _)
LoopRun(cands, wins2, cm, theta, pass) ==
    CHOOSE r \in
        {IF Converged(cands, new, theta) \/ pass >= max_iterations
         THEN [passes |-> pass, converged |-> Converged(cands, new, theta), theta |-> new]
         ELSE LoopRun(cands, wins2, cm, new, pass + 1) :
            new \in {MMStep(cands, wins2, cm, theta)}} : TRUE

\* the run of the refit that produced the scores of the table
RefitRun ==
    LoopRun(DOMAIN bt_scores, Wins2(DOMAIN bt_scores, RefitInput(comparisons)),
            CompMatrix(DOMAIN bt_scores, RefitInput(comparisons)),
            [i \in DOMAIN bt_scores |-> Scale], 1)

\* C23 - MM iteration cap: the refit of a record stops at the first pass whose
\* largest change is below tol, and at pass max_iter at the latest, converged
\* or not; it returns one score per candidate, and record_comparison returns
\* (the only error it raises is the ValueError for an invalid winner).
C23_IterationCap ==
    /\ ret.op = "record_comparison" => ret.error \in {"", "ValueError"}
    /\ AfterRefit =>
           \E r \in {RefitRun} :
               /\ r.passes \in 1..max_iterations
               /\ r.passes < max_iterations => r.converged
               /\ DOMAIN recomputed_scores(bt_scores, comparisons) = DOMAIN bt_scores
               /\ \E scores \in {Normalise(DOMAIN bt_scores, r.theta)} :
                      \A c \in DOMAIN bt_scores : bt_scores[c].bt_score = scores[c]

C23_Witness ==
    /\ AfterRefit
    /\ RefitRun.passes = max_iterations
    /\ ~RefitRun.converged
    /\ Cardinality(DOMAIN bt_scores) = 2

\* a compare call returns
CompareReturns == call.pc = "after_loop" /\ call'.pc = "idle"

\* reset_statistics runs (no compare call is in progress before or after)
ResetRuns == call.pc = "idle" /\ call'.pc = "idle"

\* C24 - judge statistics: a compare call adds exactly 1 to total_comparisons
\* when it returns, whatever the number of oracle attempts and whether it
\* degraded, and nothing before; total_comparisons and total_cost decrease in
\* no step but a reset, which sets both to zero; get_statistics reports the two
\* current values.
C24_Statistics ==
    [][/\ CompareReturns => /\ total_comparisons' = total_comparisons + 1
                            /\ total_cost' = total_cost + call.cost
       /\ ResetRuns => total_comparisons' = 0 /\ total_cost' = 0
       /\ ~CompareReturns /\ ~ResetRuns =>
              total_comparisons' = total_comparisons /\ total_cost' = total_cost
       /\ ~ResetRuns => total_comparisons' >= total_comparisons /\ total_cost' >= total_cost
       /\ get_statistics(total_comparisons', total_cost').total_comparisons = total_comparisons'
       /\ get_statistics(total_comparisons', total_cost').total_cost = total_cost']_vars

\* a degraded call of two paid attempts returned and was counted once
C24_Witness ==
    /\ jret.valid /\ call.pc = "idle"
    /\ Len(jret.log) = MAX_TIE_RETRIES
    /\ NOTE \in Range(jret.reasoning)
    /\ total_comparisons = 1
    /\ total_cost > 0

\* the stored records that name id, the last recorded first
NewestFirst(comps, id) ==
    LET involved == SelectSeq(comps, LAMBDA row : row.candidate_a = id \/ row.candidate_b = id)
    IN [i \in 1..Len(involved) |-> involved[Len(involved) + 1 - i]]

\* C25 - history: get_comparison_history(id) returns the stored records that
\* name id as candidate_a or candidate_b, all of them and no other, each once,
\* the most recently recorded first, and the same list on every call made
\* before the next record.
C25_HistoryNewestFirst ==
    \A id \in Candidates :
        get_comparison_history(comparisons, id) = {NewestFirst(comparisons, id)}

\* the candidates get_rankings may list
Eligible(min_comparisons) ==
    {c \in DOMAIN bt_scores : bt_scores[c].num_comparisons >= min_comparisons}

\* a list of eligible candidates in non-increasing score order which, when a
\* top_n is given, has at most top_n entries and leaves out no candidate that
\* scores higher than one it holds
RankingAsSpecified(seq, top_n, min_comparisons) ==
    /\ Range(seq) \subseteq Eligible(min_comparisons)
    /\ \A k \in 1..(Len(seq) - 1) :
           bt_scores[seq[k]].bt_score >= bt_scores[seq[k + 1]].bt_score
    /\ top_n # None =>
           /\ Len(seq) <= top_n
           /\ Len(seq) = Min2(top_n, Cardinality(Eligible(min_comparisons)))
           /\ \A c \in Eligible(min_comparisons) \ Range(seq), d \in Range(seq) :
                  bt_scores[d].bt_score >= bt_scores[c].bt_score

\* C26 - rankings: get_rankings(top_n, min_comparisons) lists only candidates
\* with comparison_count >= min_comparisons, in non-increasing score order,
\* and for every given top_n >= 0 at most top_n of them, the highest-scored
\* ones.
C26_Rankings ==
    \A top_n \in TopNs, min_comparisons \in MinComparisons :
        \A seq \in get_rankings(bt_scores, top_n, min_comparisons) :
            RankingAsSpecified(seq, top_n, min_comparisons)

\* C27 - random sample: every list get_random_candidates(n, exclude) can return
\* holds pairwise different ids, each with a rating row and none in exclude,
\* and has min(n, number of rating rows not in exclude) entries.
C27_RandomSample ==
    \A n \in SampleSizes, exclude \in SUBSET Candidates :
        /\ get_random_candidates(bt_scores, n, exclude) # {}
        /\ \A sample \in get_random_candidates(bt_scores, n, exclude) :
               /\ \A i \in 1..Len(sample), j \in 1..Len(sample) :
                      i # j => sample[i] # sample[j]
               /\ \A i \in 1..Len(sample) :
                      HasRow(bt_scores, sample[i]) /\ sample[i] \notin exclude
               /\ Len(sample) = Min2(n, Cardinality({c \in DOMAIN bt_scores : c \notin exclude}))

\* two rows: a sample of one can be either, and a sample of two that excludes
\* one of them is the other alone
C27_Witness ==
    /\ ret.op = "get_random_candidates"
    /\ Cardinality(DOMAIN bt_scores) = 2
    /\ Cardinality(get_random_candidates(bt_scores, 1, {})) = 2
    /\ \E c \in DOMAIN bt_scores, d \in DOMAIN bt_scores :
           get_random_candidates(bt_scores, 2, {c}) = {<<d>>}

\* the operations that only query the store
ReadOps == {"get_stats", "comparison_exists", "get_comparison", "get_rankings",
            "get_random_candidates", "get_comparison_history", "export_data"}

\* C28 - lazy creation only through get_score and record: a get_stats(id) that
\* finds no row returns None and leaves the id without a row; get_stats,
\* comparison_exists, get_comparison, get_rankings, get_random_candidates,
\* get_comparison_history and export_data leave both tables as they are; a step
\* that adds a rating row is a get_score or a record_comparison.
C28_LazyCreation ==
    [][/\ ret'.op \in ReadOps => bt_scores' = bt_scores /\ comparisons' = comparisons
       /\ ret'.op = "get_stats" /\ ~ret'.existed =>
              \E id \in Candidates :
                  /\ ~HasRow(bt_scores, id)
                  /\ get_stats(bt_scores, id) = None
                  /\ ~HasRow(bt_scores', id)
       /\ DOMAIN bt_scores' # DOMAIN bt_scores =>
              ret'.op \in {"get_score", "record_comparison"}]_vars

\* get_stats found no row for an id in a store that holds a row and a record
C28_Witness ==
    /\ ret.op = "get_stats" /\ ~ret.existed
    /\ bt_scores # <<>> /\ comparisons # <<>>
    /\ \E id \in Candidates : ~HasRow(bt_scores, id)

\* the number of stored comparison records that name c on either side
RecordsNaming(c) ==
    Cardinality({k \in 1..Len(comparisons) :
                    comparisons[k].candidate_a = c \/ comparisons[k].candidate_b = c})

\* C29 - comparison count matches the records: in every reachable state the
\* num_comparisons of every candidate is the number of stored comparison
\* records the candidate appears in, whatever the pairs recorded, a pair of
\* one id with itself included.
C29_CountMatchesRecords ==
    \A c \in DOMAIN bt_scores : bt_scores[c].num_comparisons = RecordsNaming(c)


\* C31 - the after-scores follow the global fit: after any record_comparison
\* every stored comparison record has score_a_after and score_b_after equal
\* to the current scores of its candidate_a and candidate_b.
C31_AfterScoresFollowFit ==
    (ret.op = "record_comparison" /\ ret.error = "") =>
        \A k \in 1..Len(comparisons) :
            /\ comparisons[k].score_a_after = bt_scores[comparisons[k].candidate_a].bt_score
            /\ comparisons[k].score_b_after = bt_scores[comparisons[k].candidate_b].bt_score

\* C32 - cost accumulation: each compare call increases total_cost by the sum
\* of the costs of every oracle query made during that call, the queries whose
\* responses failed to parse and were retried included.
C32_CostAccumulation ==
    [][(call.pc = "after_loop" /\ call'.pc = "idle") =>
           total_cost' = total_cost + call.queried_cost]_vars

\* what _parse_response makes of one response of the oracle or of the fallback
ParsedResponses ==
    {_parse_response(response) :
        response \in Responses \cup {_mock_llm_response(m) : m \in Positions}}

\* C33 - retry only after a failed parse: within one compare call the oracle
\* is queried again only if the previous response had no parseable candidate
\* token; after the first response that parses no further query is made in
\* that call, and that response alone gives the presented winner and the
\* reasoning.
C33_RetryOnlyAfterFailedParse ==
    [][/\ (call'.attempt = call.attempt + 1 /\ call.attempt > 0) =>
              /\ call.winner_presented = "tie"
              /\ \A k \in 1..Len(call.log) : call.log[k].winner = "tie"
       /\ (call'.attempt = call.attempt + 1 /\ call'.winner_presented # "tie") =>
              /\ call'.pc = "after_loop"
              /\ call'.log[Len(call'.log)].winner = call'.winner_presented
              /\ [winner |-> call'.winner_presented, reasoning |-> call'.reasoning]
                     \in ParsedResponses
       /\ call.pc = "after_loop" =>
              /\ call'.attempt # call.attempt + 1
              /\ call.winner_presented # "tie" =>
                     /\ jret'.presented = call.winner_presented
                     /\ jret'.reasoning = call.reasoning
                     /\ jret'.log = call.log]_vars

\* a call has returned whose first response failed to parse and whose second
\* response parsed and gave the presented winner
C33_Witness ==
    /\ jret.valid
    /\ Len(jret.log) = 2
    /\ jret.log[1].winner = "tie"
    /\ jret.log[2].winner = jret.presented
    /\ jret.presented \in Positions

\* a response without a verdict line, or with verdict lines for both positions
Ambiguous(response) ==
    \/ Range(response) \cap CandidateLines = {}
    \/ CandidateLines \subseteq Range(response)

\* C34 - ambiguous verdicts fail to parse: a response that has no line
\* candidate:first or candidate:second, or that has both a candidate:first
\* line and a candidate:second line, is parsed as 'tie' (a parse failure, which
\* triggers a retry) and not resolved to one of the two.
C34_AmbiguousFailsToParse ==
    (call.pc = "parsed" /\ Ambiguous(call.response)) => call.winner_presented = "tie"

\* C35 - orchestrator failure containment: if a step of
\* evaluate_coding_agent_prompt after the program is loaded raises, the
\* exception is not propagated: the function returns metrics with
\* combined_score 0.0 and the error text, writes results with correct = false
\* and performs no score sync; results are written on every path that returns.
C35_FailureContainment ==
    round.pc = "returned" =>
        /\ round.written.done
        /\ round.raised =>
               /\ round.returned.combined_score = 0
               /\ round.returned.error = round.raised_text
               /\ round.written.metrics = round.returned
               /\ round.written.correct = FALSE
               /\ ~round.synced

\* the payload a run's response names, "" when the response does not parse
ChosenPayload(run) ==
    LET position == _parse_response(run.response).winner
    IN IF position = "first" THEN run.first
       ELSE IF position = "second" THEN run.second ELSE ""

\* both runs of a call were answered by an oracle that names the same payload
\* at either position
ContentBased ==
    /\ jret # NoJRet
    /\ llm
    /\ jret.candidate_a # jret.candidate_b
    /\ ChosenPayload(jret.straight) # ""
    /\ ChosenPayload(jret.straight) = ChosenPayload(jret.swapped)

\* C36 - independence from the coin flip: for an oracle whose verdict depends
\* only on the content of the two payloads (it picks the same underlying
\* candidate whichever position it is shown in) and whose response parses,
\* compare returns the same winner label for both outcomes of the coin flip.
C36_CoinIndependence ==
    ContentBased =>
        /\ jret.straight.winner = jret.swapped.winner
        /\ jret.straight.winner =
               (IF ChosenPayload(jret.straight) = jret.candidate_a THEN "a" ELSE "b")

\* the oracle named candidate_b's payload at the second position in the run
\* presented in argument order and at the first position in the swapped run
C36_Witness ==
    /\ ContentBased
    /\ jret.straight.first = jret.swapped.second
    /\ _parse_response(jret.straight.response).winner = "second"
    /\ _parse_response(jret.swapped.response).winner = "first"
    /\ jret.swapped.winner = "b"

\* the store left by recording rows[order[1]], ..., rows[order[n]], each with
\* its argument order, winner and reasoning, into an empty store
RECURSIVE RecordedInOrder(_, _, _)
RecordedInOrder(rows, order, n) ==
    IF n = 0 THEN [bt_scores |-> <<>>, comparisons |-> <<>>]
    ELSE LET before == RecordedInOrder(rows, order, n - 1)
             row == rows[order[n]]
         IN record_comparison(before.bt_scores, before.comparisons, row.candidate_a,
                              row.candidate_b, row.winner, row.judge_reasoning)

\* C37 - BT-MM order independence: for any fixed set of comparisons (distinct
\* unordered pairs, each with a fixed argument order and winner) recorded into
\* an initially empty store, the final score and the counters of every
\* candidate are the same for every order in which the comparisons are
\* recorded.
C37_OrderIndependence ==
    \A order \in DistinctSeqs(1..Len(comparisons), Len(comparisons)) :
        RecordedInOrder(comparisons, order, Len(comparisons)).bt_scores = bt_scores

\* two comparisons that share a candidate are stored, won by different
\* candidates, and the scores are not all equal
C37_Witness ==
    /\ Len(comparisons) = 2
    /\ comparisons[1].candidate_a # comparisons[1].candidate_b
    /\ {comparisons[2].candidate_a, comparisons[2].candidate_b}
           \cap {comparisons[1].candidate_a, comparisons[1].candidate_b} # {}
    /\ \E c \in DOMAIN bt_scores, d \in DOMAIN bt_scores :
           bt_scores[c].bt_score # bt_scores[d].bt_score

\* C38 - the ELO rating pool is conserved: in every state reachable by any
\* sequence of get_elo and record_comparison calls (any pairs, any winners,
\* duplicates included) the sum of all stored ratings equals initial_elo times
\* the number of rating rows.
C38_PoolConserved ==
    SumOver([c \in DOMAIN elo_scores |-> elo_scores[c].elo_score], DOMAIN elo_scores)
        = initial_elo * Cardinality(DOMAIN elo_scores)

\* C39 - the ELO update is local: record_comparison(a, b, w) changes the
\* rating and the counters of a and b only and is applied once per stored
\* comparison; the rating row of every other candidate and every comparison
\* record stored before are left unchanged, and a duplicate record changes
\* nothing.
C39_EloLocal ==
    [][LET n == Len(elo_comparisons)
       IN /\ Len(elo_comparisons') \in {n, n + 1}
          /\ \A k \in 1..n : elo_comparisons'[k] = elo_comparisons[k]
          /\ DOMAIN elo_scores \subseteq DOMAIN elo_scores'
          /\ IF Len(elo_comparisons') = n
             THEN \A c \in DOMAIN elo_scores : elo_scores'[c] = elo_scores[c]
             ELSE LET a == elo_comparisons'[n + 1].candidate_a
                      b == elo_comparisons'[n + 1].candidate_b
                  IN /\ ~elo_comparison_exists(elo_comparisons, a, b)
                     /\ \A c \in DOMAIN elo_scores' \ {a, b} :
                            c \in DOMAIN elo_scores /\ elo_scores'[c] = elo_scores[c]
                     /\ \A c \in {a, b} :
                            elo_scores'[c].num_comparisons =
                                (IF c \in DOMAIN elo_scores
                                 THEN elo_scores[c].num_comparisons ELSE 0)
                                + Bit(c = a) + Bit(c = b)
          /\ (ret'.op = "elo_record_comparison" /\ ret'.existed) =>
                 elo_scores' = elo_scores /\ elo_comparisons' = elo_comparisons]_vars

\* a comparison has been recorded while a candidate that is on neither side
\* of it has a rating moved by an earlier comparison
C39_Witness ==
    /\ ret.op = "elo_record_comparison" /\ ~ret.existed /\ ret.error = ""
    /\ Len(elo_comparisons) > 1
    /\ \E c \in DOMAIN elo_scores :
           /\ c \notin {elo_comparisons[Len(elo_comparisons)].candidate_a,
                        elo_comparisons[Len(elo_comparisons)].candidate_b}
           /\ elo_scores[c].elo_score # initial_elo

\* C40 - referential integrity: in every reachable store state both candidate
\* ids of every stored comparison record have a rating row, and every
\* candidate with wins + losses + ties > 0 appears in at least one stored
\* comparison record.
C40_ReferentialIntegrity ==
    /\ \A k \in 1..Len(comparisons) :
           /\ HasRow(bt_scores, comparisons[k].candidate_a)
           /\ HasRow(bt_scores, comparisons[k].candidate_b)
    /\ \A c \in DOMAIN bt_scores :
           bt_scores[c].wins + bt_scores[c].losses + bt_scores[c].ties > 0 =>
               \E k \in 1..Len(comparisons) :
                   comparisons[k].candidate_a = c \/ comparisons[k].candidate_b = c

\* a comparison is stored whose two candidates have rows with counted
\* outcomes, next to a row created by a read that has none
C40_Witness ==
    /\ comparisons # <<>>
    /\ bt_scores[comparisons[1].candidate_a].wins
           + bt_scores[comparisons[1].candidate_a].losses
           + bt_scores[comparisons[1].candidate_a].ties > 0
    /\ \E c \in DOMAIN bt_scores :
           /\ bt_scores[c].num_comparisons = 0
           /\ \A k \in 1..Len(comparisons) :
                  comparisons[k].candidate_a # c /\ comparisons[k].candidate_b # c

====
